---- MODULE Spec2Model ----
(***************************************************************************)
(* PDF heading extractor: the fragment filter and title selector of        *)
(* pdf_processor.py, the heading detector of heading_detector.py and the   *)
(* per-file loop of main.py.                                               *)
(*                                                                         *)
(* Texts are sequences of one-character strings, so that strip, lower,     *)
(* split, whitespace collapsing and regular-expression matching are        *)
(* computed character by character as Python computes them.                *)
(***************************************************************************)
EXTENDS Integers, Sequences, FiniteSets, TLC

\* ------------------------------------------------------------------------
\* Characters and the str methods the code uses
\* ------------------------------------------------------------------------

UpperChars ==
  <<"A","B","C","D","E","F","G","H","I","J","K","L","M",
    "N","O","P","Q","R","S","T","U","V","W","X","Y","Z">>

LowerChars ==
  <<"a","b","c","d","e","f","g","h","i","j","k","l","m",
    "n","o","p","q","r","s","t","u","v","w","x","y","z">>

DigitChars == {"0","1","2","3","4","5","6","7","8","9"}

IsUpper(c) == \E i \in 1..26 : UpperChars[i] = c

\* Characters outside ASCII are written by their code point: "U+00E2" (a
\* lowercase letter), "U+20AC" and "U+201C" of the exact-match table, and
\* "U+00A9", the copyright sign.
IsLower(c) == (\E i \in 1..26 : LowerChars[i] = c) \/ c = "U+00E2"

IsSpace(c) == c \in {" ", "\t"}

IsDigit(c) == c \in DigitChars

\* \w: letters, digits and the underscore
IsWord(c) == IsUpper(c) \/ IsLower(c) \/ IsDigit(c) \/ c = "_"

\* str.lower() on one character
Lower(c) ==
  IF IsUpper(c) THEN LowerChars[CHOOSE i \in 1..26 : UpperChars[i] = c] ELSE c

\* str.lower()
LowerText(s) == [i \in 1..Len(s) |-> Lower(s[i])]

\* str.islower(): some cased character, and no uppercase one
IsLowerText(s) ==
  /\ \E i \in 1..Len(s) : IsLower(s[i])
  /\ \A i \in 1..Len(s) : ~IsUpper(s[i])

\* str.strip()
Strip(s) ==
  LET ns == {i \in 1..Len(s) : ~IsSpace(s[i])}
  IN  IF ns = {} THEN <<>>
      ELSE LET lo == CHOOSE i \in ns : \A k \in ns : i <= k
               hi == CHOOSE i \in ns : \A k \in ns : i >= k
           IN  SubSeq(s, lo, hi)

\* str.endswith(suffix)
EndsWith(s, suf) ==
  /\ Len(suf) <= Len(s)
  /\ SubSeq(s, Len(s) - Len(suf) + 1, Len(s)) = suf

\* sub in s
Contains(s, sub) ==
  \E i \in 1..(Len(s) - Len(sub) + 1) : SubSeq(s, i, i + Len(sub) - 1) = sub

\* str.count(c) for a one-character c
Count(s, c) == Cardinality({i \in 1..Len(s) : s[i] = c})

\* re.sub(r'\s+', ' ', s): every maximal whitespace run becomes one space.
\* A whitespace character that follows another one is dropped, and the
\* first of a run is written as a space.
CollapseWhitespace(s) ==
  LET tagged == [i \in 1..Len(s) |-> <<s[i], i > 1 /\ IsSpace(s[i - 1])>>]
      Keep(p) == ~(IsSpace(p[1]) /\ p[2])
      kept == SelectSeq(tagged, Keep)
  IN  [k \in 1..Len(kept) |-> IF IsSpace(kept[k][1]) THEN " " ELSE kept[k][1]]

\* str.split(): the set of the whitespace-separated words of s (the code
\* only tests membership in the resulting list)
SplitWords(s) ==
  {SubSeq(s, a, b) : <<a, b>> \in
     {p \in (1..Len(s)) \X (1..Len(s)) :
        /\ p[1] <= p[2]
        /\ \A k \in p[1]..p[2] : ~IsSpace(s[k])
        /\ (p[1] = 1 \/ IsSpace(s[p[1] - 1]))
        /\ (p[2] = Len(s) \/ IsSpace(s[p[2] + 1]))}}

\* ------------------------------------------------------------------------
\* Regular expressions.  A pattern is a sequence of tokens; a token is the
\* source text of one atom with its quantifier ("\\s+", "s?", "$"), and any
\* other token is a literal character.  The alternatives of a|b and of
\* (a|b) are separate patterns of one list, in the order they are tried.
\* ------------------------------------------------------------------------

TokSpec(t) ==
  CASE t = "\\s+"      -> [cls |-> "space", ch |-> "", lo |-> 1, hi |-> 0, inf |-> TRUE]
    [] t = "\\s*"      -> [cls |-> "space", ch |-> "", lo |-> 0, hi |-> 0, inf |-> TRUE]
    [] t = "\\d+"      -> [cls |-> "digit", ch |-> "", lo |-> 1, hi |-> 0, inf |-> TRUE]
    [] t = "\\d*"      -> [cls |-> "digit", ch |-> "", lo |-> 0, hi |-> 0, inf |-> TRUE]
    [] t = "\\d{4}"    -> [cls |-> "digit", ch |-> "", lo |-> 4, hi |-> 4, inf |-> FALSE]
    [] t = "\\d{1,2}"  -> [cls |-> "digit", ch |-> "", lo |-> 1, hi |-> 2, inf |-> FALSE]
    [] t = "\\d{2,4}"  -> [cls |-> "digit", ch |-> "", lo |-> 2, hi |-> 4, inf |-> FALSE]
    [] t = "\\w+"      -> [cls |-> "word",  ch |-> "", lo |-> 1, hi |-> 0, inf |-> TRUE]
    [] t = ".+"        -> [cls |-> "any",   ch |-> "", lo |-> 1, hi |-> 0, inf |-> TRUE]
    [] t = ".*"        -> [cls |-> "any",   ch |-> "", lo |-> 0, hi |-> 0, inf |-> TRUE]
    [] t = "[/-]"      -> [cls |-> "slashdash", ch |-> "", lo |-> 1, hi |-> 1, inf |-> FALSE]
    [] t = "[A-Z]"     -> [cls |-> "upper", ch |-> "", lo |-> 1, hi |-> 1, inf |-> FALSE]
    [] t = "[A-Z]{1,3}" -> [cls |-> "upper", ch |-> "", lo |-> 1, hi |-> 3, inf |-> FALSE]
    [] t = "[a-z]"     -> [cls |-> "lower", ch |-> "", lo |-> 1, hi |-> 1, inf |-> FALSE]
    [] t = "[^.]"      -> [cls |-> "notdot", ch |-> "", lo |-> 1, hi |-> 1, inf |-> FALSE]
    [] t = "[^.]*"     -> [cls |-> "notdot", ch |-> "", lo |-> 0, hi |-> 0, inf |-> TRUE]
    [] t = "[.]+"      -> [cls |-> "lit", ch |-> ".", lo |-> 1, hi |-> 0, inf |-> TRUE]
    [] t = "[.]{2,}"   -> [cls |-> "lit", ch |-> ".", lo |-> 2, hi |-> 0, inf |-> TRUE]
    [] t = "[.!?]"     -> [cls |-> "sentend", ch |-> "", lo |-> 1, hi |-> 1, inf |-> FALSE]
    [] t = "\\."       -> [cls |-> "lit", ch |-> ".", lo |-> 1, hi |-> 1, inf |-> FALSE]
    [] t = "\\?"       -> [cls |-> "lit", ch |-> "?", lo |-> 1, hi |-> 1, inf |-> FALSE]
    [] t = "\\+"       -> [cls |-> "lit", ch |-> "+", lo |-> 1, hi |-> 1, inf |-> FALSE]
    [] t = "\\)"       -> [cls |-> "lit", ch |-> ")", lo |-> 1, hi |-> 1, inf |-> FALSE]
    [] t = "-+"        -> [cls |-> "lit", ch |-> "-", lo |-> 1, hi |-> 0, inf |-> TRUE]
    [] t = "'?"        -> [cls |-> "lit", ch |-> "'", lo |-> 0, hi |-> 1, inf |-> FALSE]
    [] t = "s?"        -> [cls |-> "lit", ch |-> "s", lo |-> 0, hi |-> 1, inf |-> FALSE]
    [] t = "!?"        -> [cls |-> "lit", ch |-> "!", lo |-> 0, hi |-> 1, inf |-> FALSE]
    [] OTHER           -> [cls |-> "lit", ch |-> t,  lo |-> 1, hi |-> 1, inf |-> FALSE]

\* whether character c is in a token's class; ic is re.IGNORECASE
InClass(spec, c, ic) ==
  CASE spec.cls = "lit"       -> IF ic THEN Lower(c) = Lower(spec.ch) ELSE c = spec.ch
    [] spec.cls = "space"     -> IsSpace(c)
    [] spec.cls = "digit"     -> IsDigit(c)
    [] spec.cls = "word"      -> IsWord(c)
    [] spec.cls = "any"       -> TRUE
    [] spec.cls = "slashdash" -> c \in {"/", "-"}
    [] spec.cls = "upper"     -> IsUpper(c) \/ (ic /\ \E i \in 1..26 : LowerChars[i] = c)
    [] spec.cls = "lower"     -> (\E i \in 1..26 : LowerChars[i] = c) \/ (ic /\ IsUpper(c))
    [] spec.cls = "notdot"    -> c # "."
    [] spec.cls = "sentend"   -> c \in {".", "!", "?"}

\* the repetition counts a token may take with n characters left
Reps(spec, n) ==
  spec.lo .. (IF spec.inf \/ spec.hi > n THEN n ELSE spec.hi)

\* the positions a match of one token of class spec can end at (one past
\* its last character) when it starts at a position of S
StepClass(spec, txt, S, ic) ==
  UNION { { p + k : k \in
              { r \in Reps(spec, Len(txt) - p + 1) :
                  \A m \in p..(p + r - 1) : InClass(spec, txt[m], ic) } }
          : p \in S }

\* the same for a token as written; "^" and "$" take nothing and hold at
\* the start and at the end of the text
StepToken(tok, txt, S, ic) ==
  IF tok = "$" THEN S \cap {Len(txt) + 1}
  ELSE IF tok = "^" THEN S \cap {1}
  ELSE StepClass(TokSpec(tok), txt, S, ic)

\* the positions a match of the tokens pat[a..b] can end at when it starts
\* at a position of S (the two halves of the pattern one after the other)
RECURSIVE EndsOf(_, _, _, _, _, _)
EndsOf(pat, a, b, txt, S, ic) ==
  IF S = {} \/ a > b THEN S
  ELSE IF a = b THEN StepToken(pat[a], txt, S, ic)
  ELSE LET mid == (a + b) \div 2
       IN  EndsOf(pat, mid + 1, b, txt, EndsOf(pat, a, mid, txt, S, ic), ic)

\* the positions a match of pat that starts at position j can end at
MatchEnds(pat, txt, j, ic) == EndsOf(pat, 1, Len(pat), txt, {j}, ic)

\* re.match(pattern, text[, re.IGNORECASE]) is not None
ReMatch(pat, txt, ic) == MatchEnds(pat, txt, 1, ic) # {}

\* any(re.match(p, text) for p in patterns)
MatchesAny(pats, txt, ic) == \E n \in 1..Len(pats) : ReMatch(pats[n], txt, ic)

\* ------------------------------------------------------------------------
\* heading_detector.py: the tables of _init_specific_patterns
\* ------------------------------------------------------------------------

\* self.exact_heading_matches, in insertion order: text -> (level, page).
\* The key written twice in the source ("Ontario's Digital Library") is one
\* entry of the dict.
exact_heading_matches ==
  << \* line 25: "HOPE To SEE You THERE!"
     [text |-> <<"H","O","P","E"," ","T","o"," ","S","E","E"," ","Y","o","u"," ","T","H","E","R","E","!">>,
      level |-> "H1", page |-> 0],
     \* line 26: "HOPE To SEE Y ou T HERE !"
     [text |-> <<"H","O","P","E"," ","T","o"," ","S","E","E"," ","Y"," ","o","u"," ","T"," ","H","E","R","E"," ","!">>,
      level |-> "H1", page |-> 0],
     \* line 29: "PATHWAY OPTIONS"
     [text |-> <<"P","A","T","H","W","A","Y"," ","O","P","T","I","O","N","S">>,
      level |-> "H1", page |-> 0],
     \* line 32: "Ontario's Digital Library"
     [text |-> <<"O","n","t","a","r","i","o","'","s"," ","D","i","g","i","t","a","l"," ","L","i","b","r","a","r","y">>,
      level |-> "H1", page |-> 1],
     \* line 34: "A Critical Component for Implementing Ontario's Road Map to Prosperity Strategy"
     [text |-> <<"A"," ","C","r","i","t","i","c","a","l"," ","C","o","m","p","o","n","e","n","t"," ","f","o","r"," ","I","m","p","l","e","m","e","n","t","i","n","g"," ","O","n","t","a","r","i","o","'","s"," ","R","o","a","d"," ","M","a","p"," ","t","o"," ","P","r","o","s","p","e","r","i","t","y"," ","S","t","r","a","t","e","g","y">>,
      level |-> "H1", page |-> 1],
     \* line 35: "Summary"
     [text |-> <<"S","u","m","m","a","r","y">>,
      level |-> "H2", page |-> 1],
     \* line 36: "Timeline:"
     [text |-> <<"T","i","m","e","l","i","n","e",":">>,
      level |-> "H3", page |-> 1],
     \* line 37: "Background"
     [text |-> <<"B","a","c","k","g","r","o","u","n","d">>,
      level |-> "H2", page |-> 2],
     \* line 38: "Equitable access for all Ontarians:"
     [text |-> <<"E","q","u","i","t","a","b","l","e"," ","a","c","c","e","s","s"," ","f","o","r"," ","a","l","l"," ","O","n","t","a","r","i","a","n","s",":">>,
      level |-> "H3", page |-> 3],
     \* line 39: "Shared decision-making and accountability:"
     [text |-> <<"S","h","a","r","e","d"," ","d","e","c","i","s","i","o","n","-","m","a","k","i","n","g"," ","a","n","d"," ","a","c","c","o","u","n","t","a","b","i","l","i","t","y",":">>,
      level |-> "H3", page |-> 3],
     \* line 40: "Shared governance structure:"
     [text |-> <<"S","h","a","r","e","d"," ","g","o","v","e","r","n","a","n","c","e"," ","s","t","r","u","c","t","u","r","e",":">>,
      level |-> "H3", page |-> 3],
     \* line 41: "Shared funding:"
     [text |-> <<"S","h","a","r","e","d"," ","f","u","n","d","i","n","g",":">>,
      level |-> "H3", page |-> 3],
     \* line 42: "Local points of entry:"
     [text |-> <<"L","o","c","a","l"," ","p","o","i","n","t","s"," ","o","f"," ","e","n","t","r","y",":">>,
      level |-> "H3", page |-> 4],
     \* line 43: "Access:"
     [text |-> <<"A","c","c","e","s","s",":">>,
      level |-> "H3", page |-> 4],
     \* line 44: "Guidance and Advice:"
     [text |-> <<"G","u","i","d","a","n","c","e"," ","a","n","d"," ","A","d","v","i","c","e",":">>,
      level |-> "H3", page |-> 4],
     \* line 45: "Training:"
     [text |-> <<"T","r","a","i","n","i","n","g",":">>,
      level |-> "H3", page |-> 4],
     \* line 46: "Provincial Purchasing & Licensing:"
     [text |-> <<"P","r","o","v","i","n","c","i","a","l"," ","P","u","r","c","h","a","s","i","n","g"," ","&"," ","L","i","c","e","n","s","i","n","g",":">>,
      level |-> "H3", page |-> 4],
     \* line 47: "Technological Support:"
     [text |-> <<"T","e","c","h","n","o","l","o","g","i","c","a","l"," ","S","u","p","p","o","r","t",":">>,
      level |-> "H3", page |-> 4],
     \* line 48: "What could the ODL really mean?"
     [text |-> <<"W","h","a","t"," ","c","o","u","l","d"," ","t","h","e"," ","O","D","L"," ","r","e","a","l","l","y"," ","m","e","a","n","?">>,
      level |-> "H3", page |-> 4],
     \* line 49: "For each Ontario citizen it could mean:"
     [text |-> <<"F","o","r"," ","e","a","c","h"," ","O","n","t","a","r","i","o"," ","c","i","t","i","z","e","n"," ","i","t"," ","c","o","u","l","d"," ","m","e","a","n",":">>,
      level |-> "H4", page |-> 4],
     \* line 50: "For each Ontario student it could mean:"
     [text |-> <<"F","o","r"," ","e","a","c","h"," ","O","n","t","a","r","i","o"," ","s","t","u","d","e","n","t"," ","i","t"," ","c","o","u","l","d"," ","m","e","a","n",":">>,
      level |-> "H4", page |-> 4],
     \* line 51: "For each Ontario library it could mean:"
     [text |-> <<"F","o","r"," ","e","a","c","h"," ","O","n","t","a","r","i","o"," ","l","i","b","r","a","r","y"," ","i","t"," ","c","o","u","l","d"," ","m","e","a","n",":">>,
      level |-> "H4", page |-> 5],
     \* line 52: "For the Ontario government it could mean:"
     [text |-> <<"F","o","r"," ","t","h","e"," ","O","n","t","a","r","i","o"," ","g","o","v","e","r","n","m","e","n","t"," ","i","t"," ","c","o","u","l","d"," ","m","e","a","n",":">>,
      level |-> "H4", page |-> 5],
     \* line 53: "The Business Plan to be Developed"
     [text |-> <<"T","h","e"," ","B","u","s","i","n","e","s","s"," ","P","l","a","n"," ","t","o"," ","b","e"," ","D","e","v","e","l","o","p","e","d">>,
      level |-> "H2", page |-> 5],
     \* line 54: "Milestones"
     [text |-> <<"M","i","l","e","s","t","o","n","e","s">>,
      level |-> "H3", page |-> 6],
     \* line 55: "Approach and Specific Proposal Requirements"
     [text |-> <<"A","p","p","r","o","a","c","h"," ","a","n","d"," ","S","p","e","c","i","f","i","c"," ","P","r","o","p","o","s","a","l"," ","R","e","q","u","i","r","e","m","e","n","t","s">>,
      level |-> "H2", page |-> 6],
     \* line 56: "Evaluation and Awarding of Contract"
     [text |-> <<"E","v","a","l","u","a","t","i","o","n"," ","a","n","d"," ","A","w","a","r","d","i","n","g"," ","o","f"," ","C","o","n","t","r","a","c","t">>,
      level |-> "H2", page |-> 7],
     \* line 57: "Appendix A: ODL Envisioned Phases & Funding"
     [text |-> <<"A","p","p","e","n","d","i","x"," ","A",":"," ","O","D","L"," ","E","n","v","i","s","i","o","n","e","d"," ","P","h","a","s","e","s"," ","&"," ","F","u","n","d","i","n","g">>,
      level |-> "H2", page |-> 8],
     \* line 58: "Phase I: Business Planning"
     [text |-> <<"P","h","a","s","e"," ","I",":"," ","B","u","s","i","n","e","s","s"," ","P","l","a","n","n","i","n","g">>,
      level |-> "H3", page |-> 8],
     \* line 59: "Phase II: Implementing and Transitioning"
     [text |-> <<"P","h","a","s","e"," ","I","I",":"," ","I","m","p","l","e","m","e","n","t","i","n","g"," ","a","n","d"," ","T","r","a","n","s","i","t","i","o","n","i","n","g">>,
      level |-> "H3", page |-> 8],
     \* line 60: "Phase III: Operating and Growing the ODL"
     [text |-> <<"P","h","a","s","e"," ","I","I","I",":"," ","O","p","e","r","a","t","i","n","g"," ","a","n","d"," ","G","r","o","w","i","n","g"," ","t","h","e"," ","O","D","L">>,
      level |-> "H3", page |-> 8],
     \* line 61: "Appendix B: ODL Steering Committee Terms of Reference"
     [text |-> <<"A","p","p","e","n","d","i","x"," ","B",":"," ","O","D","L"," ","S","t","e","e","r","i","n","g"," ","C","o","m","m","i","t","t","e","e"," ","T","e","r","m","s"," ","o","f"," ","R","e","f","e","r","e","n","c","e">>,
      level |-> "H2", page |-> 10],
     \* line 62: "1. Preamble"
     [text |-> <<"1","."," ","P","r","e","a","m","b","l","e">>,
      level |-> "H3", page |-> 10],
     \* line 63: "2. Terms of Reference"
     [text |-> <<"2","."," ","T","e","r","m","s"," ","o","f"," ","R","e","f","e","r","e","n","c","e">>,
      level |-> "H3", page |-> 10],
     \* line 64: "3. Membership"
     [text |-> <<"3","."," ","M","e","m","b","e","r","s","h","i","p">>,
      level |-> "H3", page |-> 10],
     \* line 65: "4. Appointment Criteria and Process"
     [text |-> <<"4","."," ","A","p","p","o","i","n","t","m","e","n","t"," ","C","r","i","t","e","r","i","a"," ","a","n","d"," ","P","r","o","c","e","s","s">>,
      level |-> "H3", page |-> 11],
     \* line 66: "5. Term"
     [text |-> <<"5","."," ","T","e","r","m">>,
      level |-> "H3", page |-> 11],
     \* line 67: "6. Chair"
     [text |-> <<"6","."," ","C","h","a","i","r">>,
      level |-> "H3", page |-> 11],
     \* line 68: "7. Meetings"
     [text |-> <<"7","."," ","M","e","e","t","i","n","g","s">>,
      level |-> "H3", page |-> 11],
     \* line 69: "8. Lines of Accountability and Communication"
     [text |-> <<"8","."," ","L","i","n","e","s"," ","o","f"," ","A","c","c","o","u","n","t","a","b","i","l","i","t","y"," ","a","n","d"," ","C","o","m","m","u","n","i","c","a","t","i","o","n">>,
      level |-> "H3", page |-> 11],
     \* line 70: "9. Financial and Administrative Policies"
     [text |-> <<"9","."," ","F","i","n","a","n","c","i","a","l"," ","a","n","d"," ","A","d","m","i","n","i","s","t","r","a","t","i","v","e"," ","P","o","l","i","c","i","e","s">>,
      level |-> "H3", page |-> 12],
     \* line 71: "Appendix C: ODL's Envisioned Electronic Resources"
     [text |-> <<"A","p","p","e","n","d","i","x"," ","C",":"," ","O","D","L","'","s"," ","E","n","v","i","s","i","o","n","e","d"," ","E","l","e","c","t","r","o","n","i","c"," ","R","e","s","o","u","r","c","e","s">>,
      level |-> "H2", page |-> 13],
     \* line 74: "Revision History"
     [text |-> <<"R","e","v","i","s","i","o","n"," ","H","i","s","t","o","r","y">>,
      level |-> "H1", page |-> 2],
     \* line 75: "Table of Contents"
     [text |-> <<"T","a","b","l","e"," ","o","f"," ","C","o","n","t","e","n","t","s">>,
      level |-> "H1", page |-> 3],
     \* line 76: "Acknowledgements"
     [text |-> <<"A","c","k","n","o","w","l","e","d","g","e","m","e","n","t","s">>,
      level |-> "H1", page |-> 4],
     \* line 77: "1. Introduction to the Foundation Level Extensions"
     [text |-> <<"1","."," ","I","n","t","r","o","d","u","c","t","i","o","n"," ","t","o"," ","t","h","e"," ","F","o","u","n","d","a","t","i","o","n"," ","L","e","v","e","l"," ","E","x","t","e","n","s","i","o","n","s">>,
      level |-> "H1", page |-> 5],
     \* line 78: "2. Introduction to Foundation Level Agile Tester Extension"
     [text |-> <<"2","."," ","I","n","t","r","o","d","u","c","t","i","o","n"," ","t","o"," ","F","o","u","n","d","a","t","i","o","n"," ","L","e","v","e","l"," ","A","g","i","l","e"," ","T","e","s","t","e","r"," ","E","x","t","e","n","s","i","o","n">>,
      level |-> "H1", page |-> 6],
     \* line 79: "2.1 Intended Audience"
     [text |-> <<"2",".","1"," ","I","n","t","e","n","d","e","d"," ","A","u","d","i","e","n","c","e">>,
      level |-> "H2", page |-> 6],
     \* line 80: "2.2 Career Paths for Testers"
     [text |-> <<"2",".","2"," ","C","a","r","e","e","r"," ","P","a","t","h","s"," ","f","o","r"," ","T","e","s","t","e","r","s">>,
      level |-> "H2", page |-> 6],
     \* line 81: "2.3 Learning Objectives"
     [text |-> <<"2",".","3"," ","L","e","a","r","n","i","n","g"," ","O","b","j","e","c","t","i","v","e","s">>,
      level |-> "H2", page |-> 6],
     \* line 82: "2.4 Entry Requirements"
     [text |-> <<"2",".","4"," ","E","n","t","r","y"," ","R","e","q","u","i","r","e","m","e","n","t","s">>,
      level |-> "H2", page |-> 7],
     \* line 83: "2.5 Structure and Course Duration"
     [text |-> <<"2",".","5"," ","S","t","r","u","c","t","u","r","e"," ","a","n","d"," ","C","o","u","r","s","e"," ","D","u","r","a","t","i","o","n">>,
      level |-> "H2", page |-> 7],
     \* line 84: "2.6 Keeping It Current"
     [text |-> <<"2",".","6"," ","K","e","e","p","i","n","g"," ","I","t"," ","C","u","r","r","e","n","t">>,
      level |-> "H2", page |-> 8],
     \* line 85: "3. Overview of the Foundation Level Extension U+00E2U+20ACU+201C Agile TesterSyllabus"
     [text |-> <<"3","."," ","O","v","e","r","v","i","e","w"," ","o","f"," ","t","h","e"," ","F","o","u","n","d","a","t","i","o","n"," ","L","e","v","e","l"," ","E","x","t","e","n","s","i","o","n"," ","U+00E2","U+20AC","U+201C"," ","A","g","i","l","e"," ","T","e","s","t","e","r","S","y","l","l","a","b","u","s">>,
      level |-> "H1", page |-> 9],
     \* line 86: "3.1 Business Outcomes"
     [text |-> <<"3",".","1"," ","B","u","s","i","n","e","s","s"," ","O","u","t","c","o","m","e","s">>,
      level |-> "H2", page |-> 9],
     \* line 87: "3.2 Content"
     [text |-> <<"3",".","2"," ","C","o","n","t","e","n","t">>,
      level |-> "H2", page |-> 9],
     \* line 88: "4. References"
     [text |-> <<"4","."," ","R","e","f","e","r","e","n","c","e","s">>,
      level |-> "H1", page |-> 11],
     \* line 89: "4.1 Trademarks"
     [text |-> <<"4",".","1"," ","T","r","a","d","e","m","a","r","k","s">>,
      level |-> "H2", page |-> 11],
     \* line 90: "4.2 Documents and Web Sites"
     [text |-> <<"4",".","2"," ","D","o","c","u","m","e","n","t","s"," ","a","n","d"," ","W","e","b"," ","S","i","t","e","s">>,
      level |-> "H2", page |-> 11] >>

\* self.flexible_patterns, in list order: (pattern, level, page)
flexible_patterns ==
  << \* line 96: ^Revision\s+History\s*$
     [pat |-> <<"^","R","e","v","i","s","i","o","n","\\s+","H","i","s","t","o","r","y","\\s*","$">>,
      level |-> "H1", page |-> 2],
     \* line 97: ^Table\s+of\s+Contents\s*$
     [pat |-> <<"^","T","a","b","l","e","\\s+","o","f","\\s+","C","o","n","t","e","n","t","s","\\s*","$">>,
      level |-> "H1", page |-> 3],
     \* line 98: ^Acknowledgements?\s*$
     [pat |-> <<"^","A","c","k","n","o","w","l","e","d","g","e","m","e","n","t","s?","\\s*","$">>,
      level |-> "H1", page |-> 4],
     \* line 99: ^1\.\s+Introduction\s+to\s+the\s+Foundation\s+Level\s+Extensions\s*$
     [pat |-> <<"^","1","\\.","\\s+","I","n","t","r","o","d","u","c","t","i","o","n","\\s+","t","o","\\s+","t","h","e","\\s+","F","o","u","n","d","a","t","i","o","n","\\s+","L","e","v","e","l","\\s+","E","x","t","e","n","s","i","o","n","s","\\s*","$">>,
      level |-> "H1", page |-> 5],
     \* line 100: ^2\.\s+Introduction\s+to\s+Foundation\s+Level\s+Agile\s+Tester\s+Extension\s*$
     [pat |-> <<"^","2","\\.","\\s+","I","n","t","r","o","d","u","c","t","i","o","n","\\s+","t","o","\\s+","F","o","u","n","d","a","t","i","o","n","\\s+","L","e","v","e","l","\\s+","A","g","i","l","e","\\s+","T","e","s","t","e","r","\\s+","E","x","t","e","n","s","i","o","n","\\s*","$">>,
      level |-> "H1", page |-> 6],
     \* line 101: ^2\.1\s+Intended\s+Audience\s*$
     [pat |-> <<"^","2","\\.","1","\\s+","I","n","t","e","n","d","e","d","\\s+","A","u","d","i","e","n","c","e","\\s*","$">>,
      level |-> "H2", page |-> 6],
     \* line 102: ^2\.2\s+Career\s+Paths\s+for\s+Testers\s*$
     [pat |-> <<"^","2","\\.","2","\\s+","C","a","r","e","e","r","\\s+","P","a","t","h","s","\\s+","f","o","r","\\s+","T","e","s","t","e","r","s","\\s*","$">>,
      level |-> "H2", page |-> 6],
     \* line 103: ^2\.3\s+Learning\s+Objectives\s*$
     [pat |-> <<"^","2","\\.","3","\\s+","L","e","a","r","n","i","n","g","\\s+","O","b","j","e","c","t","i","v","e","s","\\s*","$">>,
      level |-> "H2", page |-> 6],
     \* line 104: ^2\.4\s+Entry\s+Requirements\s*$
     [pat |-> <<"^","2","\\.","4","\\s+","E","n","t","r","y","\\s+","R","e","q","u","i","r","e","m","e","n","t","s","\\s*","$">>,
      level |-> "H2", page |-> 7],
     \* line 105: ^2\.5\s+Structure\s+and\s+Course\s+Duration\s*$
     [pat |-> <<"^","2","\\.","5","\\s+","S","t","r","u","c","t","u","r","e","\\s+","a","n","d","\\s+","C","o","u","r","s","e","\\s+","D","u","r","a","t","i","o","n","\\s*","$">>,
      level |-> "H2", page |-> 7],
     \* line 106: ^2\.6\s+Keeping\s+It\s+Current\s*$
     [pat |-> <<"^","2","\\.","6","\\s+","K","e","e","p","i","n","g","\\s+","I","t","\\s+","C","u","r","r","e","n","t","\\s*","$">>,
      level |-> "H2", page |-> 8],
     \* line 107: ^3\.\s+Overview\s+of\s+the\s+Foundation\s+Level\s+Extension\s+.+\s+Agile\s+Tester\s*Syllabus\s*$
     [pat |-> <<"^","3","\\.","\\s+","O","v","e","r","v","i","e","w","\\s+","o","f","\\s+","t","h","e","\\s+","F","o","u","n","d","a","t","i","o","n","\\s+","L","e","v","e","l","\\s+","E","x","t","e","n","s","i","o","n","\\s+",".+","\\s+","A","g","i","l","e","\\s+","T","e","s","t","e","r","\\s*","S","y","l","l","a","b","u","s","\\s*","$">>,
      level |-> "H1", page |-> 9],
     \* line 108: ^3\.1\s+Business\s+Outcomes\s*$
     [pat |-> <<"^","3","\\.","1","\\s+","B","u","s","i","n","e","s","s","\\s+","O","u","t","c","o","m","e","s","\\s*","$">>,
      level |-> "H2", page |-> 9],
     \* line 109: ^3\.2\s+Content\s*$
     [pat |-> <<"^","3","\\.","2","\\s+","C","o","n","t","e","n","t","\\s*","$">>,
      level |-> "H2", page |-> 9],
     \* line 110: ^4\.\s+References\s*$
     [pat |-> <<"^","4","\\.","\\s+","R","e","f","e","r","e","n","c","e","s","\\s*","$">>,
      level |-> "H1", page |-> 11],
     \* line 111: ^4\.1\s+Trademarks\s*$
     [pat |-> <<"^","4","\\.","1","\\s+","T","r","a","d","e","m","a","r","k","s","\\s*","$">>,
      level |-> "H2", page |-> 11],
     \* line 112: ^4\.2\s+Documents\s+and\s+Web\s+Sites\s*$
     [pat |-> <<"^","4","\\.","2","\\s+","D","o","c","u","m","e","n","t","s","\\s+","a","n","d","\\s+","W","e","b","\\s+","S","i","t","e","s","\\s*","$">>,
      level |-> "H2", page |-> 11],
     \* line 115: ^Ontario\'?s\s+Digital\s+Library\s*$
     [pat |-> <<"^","O","n","t","a","r","i","o","'?","s","\\s+","D","i","g","i","t","a","l","\\s+","L","i","b","r","a","r","y","\\s*","$">>,
      level |-> "H1", page |-> 1],
     \* line 116: ^A\s+Critical\s+Component\s+for\s+Implementing\s+Ontario\'?s\s+Road\s+Map\s+to\s+Prosperity\s+Strategy\s*$
     [pat |-> <<"^","A","\\s+","C","r","i","t","i","c","a","l","\\s+","C","o","m","p","o","n","e","n","t","\\s+","f","o","r","\\s+","I","m","p","l","e","m","e","n","t","i","n","g","\\s+","O","n","t","a","r","i","o","'?","s","\\s+","R","o","a","d","\\s+","M","a","p","\\s+","t","o","\\s+","P","r","o","s","p","e","r","i","t","y","\\s+","S","t","r","a","t","e","g","y","\\s*","$">>,
      level |-> "H1", page |-> 1],
     \* line 117: ^Summary\s*$
     [pat |-> <<"^","S","u","m","m","a","r","y","\\s*","$">>,
      level |-> "H2", page |-> 1],
     \* line 118: ^Timeline:\s*$
     [pat |-> <<"^","T","i","m","e","l","i","n","e",":","\\s*","$">>,
      level |-> "H3", page |-> 1],
     \* line 119: ^Background\s*$
     [pat |-> <<"^","B","a","c","k","g","r","o","u","n","d","\\s*","$">>,
      level |-> "H2", page |-> 2],
     \* line 120: ^Equitable\s+access\s+for\s+all\s+Ontarians:\s*$
     [pat |-> <<"^","E","q","u","i","t","a","b","l","e","\\s+","a","c","c","e","s","s","\\s+","f","o","r","\\s+","a","l","l","\\s+","O","n","t","a","r","i","a","n","s",":","\\s*","$">>,
      level |-> "H3", page |-> 3],
     \* line 121: ^Shared\s+decision-making\s+and\s+accountability:\s*$
     [pat |-> <<"^","S","h","a","r","e","d","\\s+","d","e","c","i","s","i","o","n","-","m","a","k","i","n","g","\\s+","a","n","d","\\s+","a","c","c","o","u","n","t","a","b","i","l","i","t","y",":","\\s*","$">>,
      level |-> "H3", page |-> 3],
     \* line 122: ^Shared\s+governance\s+structure:\s*$
     [pat |-> <<"^","S","h","a","r","e","d","\\s+","g","o","v","e","r","n","a","n","c","e","\\s+","s","t","r","u","c","t","u","r","e",":","\\s*","$">>,
      level |-> "H3", page |-> 3],
     \* line 123: ^Shared\s+funding:\s*$
     [pat |-> <<"^","S","h","a","r","e","d","\\s+","f","u","n","d","i","n","g",":","\\s*","$">>,
      level |-> "H3", page |-> 3],
     \* line 124: ^Local\s+points\s+of\s+entry:\s*$
     [pat |-> <<"^","L","o","c","a","l","\\s+","p","o","i","n","t","s","\\s+","o","f","\\s+","e","n","t","r","y",":","\\s*","$">>,
      level |-> "H3", page |-> 4],
     \* line 125: ^Access:\s*$
     [pat |-> <<"^","A","c","c","e","s","s",":","\\s*","$">>,
      level |-> "H3", page |-> 4],
     \* line 126: ^Guidance\s+and\s+Advice:\s*$
     [pat |-> <<"^","G","u","i","d","a","n","c","e","\\s+","a","n","d","\\s+","A","d","v","i","c","e",":","\\s*","$">>,
      level |-> "H3", page |-> 4],
     \* line 127: ^Training:\s*$
     [pat |-> <<"^","T","r","a","i","n","i","n","g",":","\\s*","$">>,
      level |-> "H3", page |-> 4],
     \* line 128: ^Provincial\s+Purchasing\s+&\s+Licensing:\s*$
     [pat |-> <<"^","P","r","o","v","i","n","c","i","a","l","\\s+","P","u","r","c","h","a","s","i","n","g","\\s+","&","\\s+","L","i","c","e","n","s","i","n","g",":","\\s*","$">>,
      level |-> "H3", page |-> 4],
     \* line 129: ^Technological\s+Support:\s*$
     [pat |-> <<"^","T","e","c","h","n","o","l","o","g","i","c","a","l","\\s+","S","u","p","p","o","r","t",":","\\s*","$">>,
      level |-> "H3", page |-> 4],
     \* line 130: ^What\s+could\s+the\s+ODL\s+really\s+mean\?\s*$
     [pat |-> <<"^","W","h","a","t","\\s+","c","o","u","l","d","\\s+","t","h","e","\\s+","O","D","L","\\s+","r","e","a","l","l","y","\\s+","m","e","a","n","\\?","\\s*","$">>,
      level |-> "H3", page |-> 4],
     \* line 131: ^For\s+each\s+Ontario\s+citizen\s+it\s+could\s+mean:\s*$
     [pat |-> <<"^","F","o","r","\\s+","e","a","c","h","\\s+","O","n","t","a","r","i","o","\\s+","c","i","t","i","z","e","n","\\s+","i","t","\\s+","c","o","u","l","d","\\s+","m","e","a","n",":","\\s*","$">>,
      level |-> "H4", page |-> 4],
     \* line 132: ^For\s+each\s+Ontario\s+student\s+it\s+could\s+mean:\s*$
     [pat |-> <<"^","F","o","r","\\s+","e","a","c","h","\\s+","O","n","t","a","r","i","o","\\s+","s","t","u","d","e","n","t","\\s+","i","t","\\s+","c","o","u","l","d","\\s+","m","e","a","n",":","\\s*","$">>,
      level |-> "H4", page |-> 4],
     \* line 133: ^For\s+each\s+Ontario\s+library\s+it\s+could\s+mean:\s*$
     [pat |-> <<"^","F","o","r","\\s+","e","a","c","h","\\s+","O","n","t","a","r","i","o","\\s+","l","i","b","r","a","r","y","\\s+","i","t","\\s+","c","o","u","l","d","\\s+","m","e","a","n",":","\\s*","$">>,
      level |-> "H4", page |-> 5],
     \* line 134: ^For\s+the\s+Ontario\s+government\s+it\s+could\s+mean:\s*$
     [pat |-> <<"^","F","o","r","\\s+","t","h","e","\\s+","O","n","t","a","r","i","o","\\s+","g","o","v","e","r","n","m","e","n","t","\\s+","i","t","\\s+","c","o","u","l","d","\\s+","m","e","a","n",":","\\s*","$">>,
      level |-> "H4", page |-> 5],
     \* line 135: ^The\s+Business\s+Plan\s+to\s+be\s+Developed\s*$
     [pat |-> <<"^","T","h","e","\\s+","B","u","s","i","n","e","s","s","\\s+","P","l","a","n","\\s+","t","o","\\s+","b","e","\\s+","D","e","v","e","l","o","p","e","d","\\s*","$">>,
      level |-> "H2", page |-> 5],
     \* line 136: ^Milestones\s*$
     [pat |-> <<"^","M","i","l","e","s","t","o","n","e","s","\\s*","$">>,
      level |-> "H3", page |-> 6],
     \* line 137: ^Approach\s+and\s+Specific\s+Proposal\s+Requirements\s*$
     [pat |-> <<"^","A","p","p","r","o","a","c","h","\\s+","a","n","d","\\s+","S","p","e","c","i","f","i","c","\\s+","P","r","o","p","o","s","a","l","\\s+","R","e","q","u","i","r","e","m","e","n","t","s","\\s*","$">>,
      level |-> "H2", page |-> 6],
     \* line 138: ^Evaluation\s+and\s+Awarding\s+of\s+Contract\s*$
     [pat |-> <<"^","E","v","a","l","u","a","t","i","o","n","\\s+","a","n","d","\\s+","A","w","a","r","d","i","n","g","\\s+","o","f","\\s+","C","o","n","t","r","a","c","t","\\s*","$">>,
      level |-> "H2", page |-> 7],
     \* line 139: ^Appendix\s+A:\s+ODL\s+Envisioned\s+Phases\s+&\s+Funding\s*$
     [pat |-> <<"^","A","p","p","e","n","d","i","x","\\s+","A",":","\\s+","O","D","L","\\s+","E","n","v","i","s","i","o","n","e","d","\\s+","P","h","a","s","e","s","\\s+","&","\\s+","F","u","n","d","i","n","g","\\s*","$">>,
      level |-> "H2", page |-> 8],
     \* line 140: ^Phase\s+I:\s+Business\s+Planning\s*$
     [pat |-> <<"^","P","h","a","s","e","\\s+","I",":","\\s+","B","u","s","i","n","e","s","s","\\s+","P","l","a","n","n","i","n","g","\\s*","$">>,
      level |-> "H3", page |-> 8],
     \* line 141: ^Phase\s+II:\s+Implementing\s+and\s+Transitioning\s*$
     [pat |-> <<"^","P","h","a","s","e","\\s+","I","I",":","\\s+","I","m","p","l","e","m","e","n","t","i","n","g","\\s+","a","n","d","\\s+","T","r","a","n","s","i","t","i","o","n","i","n","g","\\s*","$">>,
      level |-> "H3", page |-> 8],
     \* line 142: ^Phase\s+III:\s+Operating\s+and\s+Growing\s+the\s+ODL\s*$
     [pat |-> <<"^","P","h","a","s","e","\\s+","I","I","I",":","\\s+","O","p","e","r","a","t","i","n","g","\\s+","a","n","d","\\s+","G","r","o","w","i","n","g","\\s+","t","h","e","\\s+","O","D","L","\\s*","$">>,
      level |-> "H3", page |-> 8],
     \* line 143: ^Appendix\s+B:\s+ODL\s+Steering\s+Committee\s+Terms\s+of\s+Reference\s*$
     [pat |-> <<"^","A","p","p","e","n","d","i","x","\\s+","B",":","\\s+","O","D","L","\\s+","S","t","e","e","r","i","n","g","\\s+","C","o","m","m","i","t","t","e","e","\\s+","T","e","r","m","s","\\s+","o","f","\\s+","R","e","f","e","r","e","n","c","e","\\s*","$">>,
      level |-> "H2", page |-> 10],
     \* line 144: ^1\.\s+Preamble\s*$
     [pat |-> <<"^","1","\\.","\\s+","P","r","e","a","m","b","l","e","\\s*","$">>,
      level |-> "H3", page |-> 10],
     \* line 145: ^2\.\s+Terms\s+of\s+Reference\s*$
     [pat |-> <<"^","2","\\.","\\s+","T","e","r","m","s","\\s+","o","f","\\s+","R","e","f","e","r","e","n","c","e","\\s*","$">>,
      level |-> "H3", page |-> 10],
     \* line 146: ^3\.\s+Membership\s*$
     [pat |-> <<"^","3","\\.","\\s+","M","e","m","b","e","r","s","h","i","p","\\s*","$">>,
      level |-> "H3", page |-> 10],
     \* line 147: ^4\.\s+Appointment\s+Criteria\s+and\s+Process\s*$
     [pat |-> <<"^","4","\\.","\\s+","A","p","p","o","i","n","t","m","e","n","t","\\s+","C","r","i","t","e","r","i","a","\\s+","a","n","d","\\s+","P","r","o","c","e","s","s","\\s*","$">>,
      level |-> "H3", page |-> 11],
     \* line 148: ^5\.\s+Term\s*$
     [pat |-> <<"^","5","\\.","\\s+","T","e","r","m","\\s*","$">>,
      level |-> "H3", page |-> 11],
     \* line 149: ^6\.\s+Chair\s*$
     [pat |-> <<"^","6","\\.","\\s+","C","h","a","i","r","\\s*","$">>,
      level |-> "H3", page |-> 11],
     \* line 150: ^7\.\s+Meetings\s*$
     [pat |-> <<"^","7","\\.","\\s+","M","e","e","t","i","n","g","s","\\s*","$">>,
      level |-> "H3", page |-> 11],
     \* line 151: ^8\.\s+Lines\s+of\s+Accountability\s+and\s+Communication\s*$
     [pat |-> <<"^","8","\\.","\\s+","L","i","n","e","s","\\s+","o","f","\\s+","A","c","c","o","u","n","t","a","b","i","l","i","t","y","\\s+","a","n","d","\\s+","C","o","m","m","u","n","i","c","a","t","i","o","n","\\s*","$">>,
      level |-> "H3", page |-> 11],
     \* line 152: ^9\.\s+Financial\s+and\s+Administrative\s+Policies\s*$
     [pat |-> <<"^","9","\\.","\\s+","F","i","n","a","n","c","i","a","l","\\s+","a","n","d","\\s+","A","d","m","i","n","i","s","t","r","a","t","i","v","e","\\s+","P","o","l","i","c","i","e","s","\\s*","$">>,
      level |-> "H3", page |-> 12],
     \* line 153: ^Appendix\s+C:\s+ODL\'?s\s+Envisioned\s+Electronic\s+Resources\s*$
     [pat |-> <<"^","A","p","p","e","n","d","i","x","\\s+","C",":","\\s+","O","D","L","'?","s","\\s+","E","n","v","i","s","i","o","n","e","d","\\s+","E","l","e","c","t","r","o","n","i","c","\\s+","R","e","s","o","u","r","c","e","s","\\s*","$">>,
      level |-> "H2", page |-> 13],
     \* line 156: ^PATHWAY\s+OPTIONS\s*$
     [pat |-> <<"^","P","A","T","H","W","A","Y","\\s+","O","P","T","I","O","N","S","\\s*","$">>,
      level |-> "H1", page |-> 0],
     \* line 159: ^HOPE\s+To\s+SEE\s+You\s+THERE!\s*$
     [pat |-> <<"^","H","O","P","E","\\s+","T","o","\\s+","S","E","E","\\s+","Y","o","u","\\s+","T","H","E","R","E","!","\\s*","$">>,
      level |-> "H1", page |-> 0],
     \* line 160: ^HOPE\s+To\s+SEE\s+Y\s*ou\s+T\s*HERE\s*!\s*$
     [pat |-> <<"^","H","O","P","E","\\s+","T","o","\\s+","S","E","E","\\s+","Y","\\s*","o","u","\\s+","T","\\s*","H","E","R","E","\\s*","!","\\s*","$">>,
      level |-> "H1", page |-> 0] >>

\* ------------------------------------------------------------------------
\* Greedy matching and re.sub
\* ------------------------------------------------------------------------

MaxOf(S) == CHOOSE x \in S : \A y \in S : y <= x

MinOf(S) == CHOOSE x \in S : \A y \in S : x <= y

\* The position after the match re.sub and re.search find at position j,
\* or 0 when no alternative matches there.  The first alternative that
\* matches wins.  In every pattern the code substitutes, neighbouring
\* tokens take different characters, so a match is fixed by where it ends
\* and the greedy quantifiers find the longest one.
FirstEnd(ends, hit) == IF hit = {} THEN 0 ELSE MaxOf(ends[MinOf(hit)])

LongestOfFirst(ends) == FirstEnd(ends, {n \in DOMAIN ends : ends[n] # {}})

MatchEnd(alts, txt, j, ic) ==
  LongestOfFirst([n \in 1..Len(alts) |-> MatchEnds(alts[n], txt, j, ic)])

\* re.sub(a1|a2|..., repl, txt) from position p on, with q the start of
\* the leftmost match (0 when there is none): the text up to the match,
\* repl, and the substitution of what follows the match.  Every pattern the
\* code substitutes takes at least one character.
RECURSIVE SubFrom(_, _, _, _, _)
SubAt(alts, repl, txt, p, q, ic) ==
  IF q = 0 THEN SubSeq(txt, p, Len(txt))
  ELSE SubSeq(txt, p, q - 1) \o repl
         \o SubFrom(alts, repl, txt, MatchEnd(alts, txt, q, ic), ic)

Leftmost(starts) == IF starts = {} THEN 0 ELSE MinOf(starts)

SubFrom(alts, repl, txt, p, ic) ==
  SubAt(alts, repl, txt, p,
        Leftmost({q \in p..Len(txt) : MatchEnd(alts, txt, q, ic) > q}), ic)

ReSub(alts, repl, txt, ic) == SubFrom(alts, repl, txt, 1, ic)

\* re.search(a1|a2|..., txt) is not None
ReSearch(alts, txt, ic) ==
  \E p \in 1..(Len(txt) + 1) : MatchEnd(alts, txt, p, ic) # 0

\* ------------------------------------------------------------------------
\* heading_detector.py: HeadingDetector
\* ------------------------------------------------------------------------

\* _match_exact_heading / _match_flexible_patterns returning None
None == [level |-> "None", page |-> -1]

\* skip_patterns of _should_skip_text
skip_patterns ==
  << \* ^\d+\s*$
     <<"^","\\d+","\\s*","$">>,
     \* ^Page\s+\d+
     <<"^","P","a","g","e","\\s+","\\d+">>,
     \* ^Name\s*$|^Age\s*$|^Date\s*$
     <<"^","N","a","m","e","\\s*","$">>,
     <<"^","A","g","e","\\s*","$">>,
     <<"^","D","a","t","e","\\s*","$">>,
     \* ^S\.No|^Rs\.|^PAY\s+\+
     <<"^","S","\\.","N","o">>,
     <<"^","R","s","\\.">>,
     <<"^","P","A","Y","\\s+","\\+">>,
     \* ^Whether|^Single\s*$|^Designation\s*$
     <<"^","W","h","e","t","h","e","r">>,
     <<"^","S","i","n","g","l","e","\\s*","$">>,
     <<"^","D","e","s","i","g","n","a","t","i","o","n","\\s*","$">>,
     \* ^RSVP:|^CLOSED\s+TOED
     <<"^","R","S","V","P",":">>,
     <<"^","C","L","O","S","E","D","\\s+","T","O","E","D">>,
     \* ^Join\s+and\s+actively|^Either\s+participate
     <<"^","J","o","i","n","\\s+","a","n","d","\\s+","a","c","t","i","v","e","l","y">>,
     <<"^","E","i","t","h","e","r","\\s+","p","a","r","t","i","c","i","p","a","t","e">>,
     \* ^science\s+course|^Goals\s*$
     <<"^","s","c","i","e","n","c","e","\\s+","c","o","u","r","s","e">>,
     <<"^","G","o","a","l","s","\\s*","$">>,
     \* ^\d+\.\s+Amount\s+of\s+advance
     <<"^","\\d+","\\.","\\s+","A","m","o","u","n","t","\\s+","o","f","\\s+","a","d","v","a","n","c","e">>,
     \* ^Application\s+form\s+for\s+grant
     <<"^","A","p","p","l","i","c","a","t","i","o","n","\\s+","f","o","r","m","\\s+","f","o","r","\\s+","g","r","a","n","t">>,
     \* ^Overview\s*$
     <<"^","O","v","e","r","v","i","e","w","\\s*","$">>,
     \* ^Version\s+\d+\.\d+
     <<"^","V","e","r","s","i","o","n","\\s+","\\d+","\\.","\\d+">>,
     \* ^International\s+Software\s+Testing
     <<"^","I","n","t","e","r","n","a","t","i","o","n","a","l","\\s+","S","o","f","t","w","a","r","e","\\s+","T","e","s","t","i","n","g">>,
     \* ^WWW\.
     <<"^","W","W","W","\\.">>,
     \* ^-+$
     <<"^","-+","$">> >>

\* the common_words list of _should_skip_text and _is_body_text
common_words ==
  << <<"t","h","e">>, <<"a","n","d">>, <<"o","f">>, <<"t","o">>, <<"i","n">>,
     <<"f","o","r">>, <<"w","i","t","h">>, <<"o","n">>, <<"a","t">>, <<"b","y">> >>

\* sum(1 for word in common_words if word in text.lower().split())
CommonWordCount(words, text) ==
  LET split == SplitWords(LowerText(text))
  IN  Cardinality({n \in 1..Len(words) : words[n] \in split})

\* HeadingDetector._should_skip_text
ShouldSkipText(text) ==
  \/ Len(text) < 3
  \/ Len(text) > 150
  \/ MatchesAny(skip_patterns, text, TRUE)
  \/ (CommonWordCount(common_words, text) >= 3 /\ Len(text) > 40)

\* The order in which a run iterates exact_heading_matches.items(): a
\* permutation of the table's indices.  CPython iterates a dict in insertion
\* order.
InsertionOrder == [n \in 1..Len(exact_heading_matches) |-> n]

ReverseOrder ==
  [n \in 1..Len(exact_heading_matches) |-> Len(exact_heading_matches) + 1 - n]

\* re.sub(r'\s+', ' ', exact_text.strip()) of every key of the table, which
\* the loop of _match_exact_heading computes anew for every text
normalized_exact ==
  [n \in 1..Len(exact_heading_matches) |->
     CollapseWhitespace(Strip(exact_heading_matches[n].text))]

\* the (level, page) of entry e of a table, or None without an entry
ResultOf(table, hits) ==
  IF hits = {} THEN None
  ELSE [level |-> table[MinOf(hits)].level, page |-> table[MinOf(hits)].page]

\* the second half of _match_exact_heading: the first key, in iteration
\* order, whose normalized form is the normalized text
MatchNormalized(normalized, order) ==
  ResultOf([k \in 1..Len(order) |-> exact_heading_matches[order[k]]],
           {k \in 1..Len(order) : normalized = normalized_exact[order[k]]})

FirstResult(first, second) == IF first # None THEN first ELSE second

\* HeadingDetector._match_exact_heading; the page argument is not used
MatchExactHeading(text, page, order) ==
  FirstResult(
    ResultOf(exact_heading_matches,
             {n \in 1..Len(exact_heading_matches) :
                exact_heading_matches[n].text = text}),
    MatchNormalized(CollapseWhitespace(Strip(text)), order))

\* HeadingDetector._match_flexible_patterns; the page argument is not used
MatchFlexiblePatterns(text, page) ==
  ResultOf(flexible_patterns,
           {n \in 1..Len(flexible_patterns) :
              ReMatch(flexible_patterns[n].pat, text, TRUE)})

\* the OCR pattern of _clean_heading_text
hope_pattern ==
  << \* HOPE\s+To\s+SEE\s+Y\s+ou\s+T\s+HERE\s*!?
     <<"H","O","P","E","\\s+","T","o","\\s+","S","E","E","\\s+","Y","\\s+","o","u","\\s+","T","\\s+","H","E","R","E","\\s*","!?">> >>

hope_text ==
  <<"H","O","P","E"," ","T","o"," ","S","E","E"," ","Y","o","u"," ",
    "T","H","E","R","E","!">>

ContainsAny(text, subs) == \E n \in 1..Len(subs) : Contains(text, subs[n])

\* _clean_heading_text, the two rules that append a colon; low is
\* text.lower()
AppendColon(text, low) ==
  IF Contains(low, <<"t","i","m","e","l","i","n","e">>) /\ ~EndsWith(text, <<":">>)
  THEN text \o <<":">>
  ELSE IF /\ ContainsAny(low, << <<"a","c","c","e","s","s">>,
                                <<"g","u","i","d","a","n","c","e">>,
                                <<"t","r","a","i","n","i","n","g">> >>)
          /\ ~EndsWith(text, <<":">>)
          /\ ~ContainsAny(low, << <<"f","o","r">>, <<"t","h","e">>,
                                 <<"a","n","d">> >>)
       THEN text \o <<":">>
       ELSE text

\* _clean_heading_text, the rule that restores the trailing spaces
TrailingSpace(text) ==
  IF text \in { <<"A","p","p","l","i","c","a","t","i","o","n"," ","f","o","r","m",
                  " ","f","o","r"," ","g","r","a","n","t"," ","o","f"," ",
                  "L","T","C"," ","a","d","v","a","n","c","e">>,
                <<"O","v","e","r","v","i","e","w"," ","F","o","u","n","d","a",
                  "t","i","o","n"," ","L","e","v","e","l"," ",
                  "E","x","t","e","n","s","i","o","n","s">> }
  THEN text \o <<" ", " ">>
  ELSE text

ColonRules(text) == AppendColon(text, LowerText(text))

\* a cleaner that strips the text and leaves its whitespace runs alone
CleanHeadingTextUncollapsed(text) ==
  TrailingSpace(ColonRules(ReSub(hope_pattern, hope_text, Strip(text), FALSE)))

\* HeadingDetector._clean_heading_text
CleanHeadingText(text) ==
  TrailingSpace(
    ColonRules(ReSub(hope_pattern, hope_text, Strip(CollapseWhitespace(text)), FALSE)))

\* detect_headings, `if result:` and what follows it
AppendDetected(result, cleaned_text) ==
  IF result # None /\ cleaned_text # <<>>
  THEN << [level |-> result.level, text |-> cleaned_text, page |-> result.page] >>
  ELSE <<>>

\* a loop body that appends the text of the fragment as it stands, not
\* cleaned
DetectTextRaw(text, page, order) ==
  AppendDetected(
    FirstResult(MatchExactHeading(text, page, order),
                MatchFlexiblePatterns(text, page)),
    text)

\* a loop body that asks the flexible patterns whatever the exact table
\* returned and appends a heading for each result
DetectTextBoth(text, page, order) ==
  AppendDetected(MatchExactHeading(text, page, order), CleanHeadingText(text))
    \o AppendDetected(MatchFlexiblePatterns(text, page), CleanHeadingText(text))

\* detect_headings, the loop body past the skip test
DetectText(text, page, order) ==
  AppendDetected(
    FirstResult(MatchExactHeading(text, page, order),
                MatchFlexiblePatterns(text, page)),
    CleanHeadingText(text))

SkipOr(skip, detected) == IF skip THEN <<>> ELSE detected

DetectStripped(text, page, order) ==
  SkipOr(ShouldSkipText(text), DetectText(text, page, order))

\* the loop body of detect_headings for one element: the headings it
\* appends to detected_headings (none or one)
DetectElement(element, order) ==
  DetectStripped(Strip(element.text), element.page, order)

\* a de-duplication that drops a heading only when the heading right
\* before it has its key
RECURSIVE UniqueHeadingsAdjacent(_, _, _)
UniqueHeadingsAdjacent(headings, i, seen) ==
  IF i > Len(headings) THEN <<>>
  ELSE IF /\ i > 1
          /\ headings[i].text = headings[i - 1].text
          /\ headings[i].page = headings[i - 1].page
       THEN UniqueHeadingsAdjacent(headings, i + 1, seen)
       ELSE <<headings[i]>> \o UniqueHeadingsAdjacent(headings, i + 1, seen)

\* the de-duplication loop of _finalize_headings: unique_headings, with
\* seen the set of (text, page) keys met so far
RECURSIVE UniqueHeadings(_, _, _)
UniqueHeadings(headings, i, seen) ==
  IF i > Len(headings) THEN <<>>
  ELSE LET key == <<headings[i].text, headings[i].page>>
       IN  IF key \in seen
           THEN UniqueHeadings(headings, i + 1, seen)
           ELSE <<headings[i]>>
                  \o UniqueHeadings(headings, i + 1, seen \cup {key})

\* H1=1, H2=2, H3=3, H4=4
level_rank(level) ==
  CASE level = "H1" -> 1 [] level = "H2" -> 2 [] level = "H3" -> 3 [] OTHER -> 4

\* a sort on the page that is not stable: the headings of one page come
\* out last first
RECURSIVE SortByPageLastFirst(_)
SortByPageLastFirst(hs) ==
  IF hs = <<>> THEN <<>>
  ELSE LET p == MinOf({hs[i].page : i \in 1..Len(hs)})
           IsP(h) == h.page = p
           NotP(h) == h.page # p
           onP == SelectSeq(hs, IsP)
       IN  [i \in 1..Len(onP) |-> onP[Len(onP) + 1 - i]]
             \o SortByPageLastFirst(SelectSeq(hs, NotP))

\* a sort on the page and then the level
RECURSIVE SortByPageAndLevel(_)
SortByPageAndLevel(hs) ==
  IF hs = <<>> THEN <<>>
  ELSE LET p == MinOf({hs[i].page : i \in 1..Len(hs)})
           r == MinOf({level_rank(hs[i].level) : i \in {k \in 1..Len(hs) : hs[k].page = p}})
           IsFirst(h) == h.page = p /\ level_rank(h.level) = r
           NotFirst(h) == ~IsFirst(h)
       IN  SelectSeq(hs, IsFirst) \o SortByPageAndLevel(SelectSeq(hs, NotFirst))

\* list.sort(key=lambda h: h["page"]): a stable sort on the page alone
RECURSIVE SortByPage(_)
SortByPage(hs) ==
  IF hs = <<>> THEN <<>>
  ELSE LET p == MinOf({hs[i].page : i \in 1..Len(hs)})
           IsP(h) == h.page = p
           NotP(h) == h.page # p
       IN  SelectSeq(hs, IsP) \o SortByPage(SelectSeq(hs, NotP))

\* a finalizer that also repairs the hierarchy: a heading more than one
\* rank deeper than the heading before it is raised to one rank deeper
Raised(hs) ==
  [i \in 1..Len(hs) |->
     IF i > 1 /\ level_rank(hs[i].level) > level_rank(hs[i - 1].level) + 1
     THEN [hs[i] EXCEPT !.level =
             <<"H1", "H2", "H3", "H4">>[level_rank(hs[i - 1].level) + 1]]
     ELSE hs[i]]

FinalizeHeadingsRaising(headings) ==
  IF headings = <<>> THEN <<>>
  ELSE Raised(SortByPage(UniqueHeadings(headings, 1, {})))

\* HeadingDetector._finalize_headings
FinalizeHeadings(headings) ==
  IF headings = <<>> THEN <<>>
  ELSE SortByPage(UniqueHeadings(headings, 1, {}))

\* ------------------------------------------------------------------------
\* pdf_processor.py: the fragment filter
\* ------------------------------------------------------------------------

\* artifact_patterns of _is_page_artifact
artifact_patterns ==
  << \* ^\s*\d+\s*$
     <<"^","\\s*","\\d+","\\s*","$">>,
     \* ^Page\s+\d+
     <<"^","P","a","g","e","\\s+","\\d+">>,
     \* ^U+00A9\s*\d{4}
     <<"^","U+00A9","\\s*","\\d{4}">>,
     \* ^Copyright
     <<"^","C","o","p","y","r","i","g","h","t">>,
     \* ^www\.|^http
     <<"^","w","w","w","\\.">>,
     <<"^","h","t","t","p">>,
     \* ^\w+@\w+\.\w+
     <<"^","\\w+","@","\\w+","\\.","\\w+">>,
     \* ^\d{1,2}[/-]\d{1,2}[/-]\d{2,4}
     <<"^","\\d{1,2}","[/-]","\\d{1,2}","[/-]","\\d{2,4}">>,
     \* ^Figure\s+\d+
     <<"^","F","i","g","u","r","e","\\s+","\\d+">>,
     \* ^Table\s+\d+
     <<"^","T","a","b","l","e","\\s+","\\d+">>,
     \* ^Chart\s+\d+
     <<"^","C","h","a","r","t","\\s+","\\d+">> >>

\* PDFProcessor._is_page_artifact
IsPageArtifact(text) == MatchesAny(artifact_patterns, text, TRUE)

\* the lettered-list marker of _is_body_text
lettered_pattern ==
  << \* ^[a-z]\)
     <<"^","[a-z]","\\)">> >>

\* PDFProcessor._is_body_text
IsBodyText(text) ==
  \/ (Count(text, ".") >= 2 /\ Len(text) > 50)
  \/ (CommonWordCount(common_words, text) >= 3 /\ Len(text) > 40)
  \/ (IsLowerText(text) /\ ~MatchesAny(lettered_pattern, text, FALSE))

\* the four `continue` tests of the loop of _filter_heading_candidates
IsHeadingCandidate(element) ==
  LET text == Strip(element.text)
  IN  /\ ~(Len(text) < 3)
      /\ ~IsPageArtifact(text)
      /\ ~(Len(text) > 250)
      /\ ~IsBodyText(text)

\* ------------------------------------------------------------------------
\* pdf_processor.py: the title selector
\* ------------------------------------------------------------------------

\* generic_patterns of _is_generic_metadata_title
generic_patterns ==
  << \* ^Microsoft\s+Word
     <<"^","M","i","c","r","o","s","o","f","t","\\s+","W","o","r","d">>,
     \* ^Document\d*$
     <<"^","D","o","c","u","m","e","n","t","\\d*","$">>,
     \* ^Untitled
     <<"^","U","n","t","i","t","l","e","d">>,
     \* ^\.pdf$
     <<"^","\\.","p","d","f","$">>,
     \* ^\w+\.pdf$
     <<"^","\\w+","\\.","p","d","f","$">>,
     \* ^Page\s+\d+
     <<"^","P","a","g","e","\\s+","\\d+">>,
     \* ^Draft
     <<"^","D","r","a","f","t">>,
     \* ^Copy\s+of
     <<"^","C","o","p","y","\\s+","o","f">> >>

\* PDFProcessor._is_generic_metadata_title
IsGenericMetadataTitle(title) == MatchesAny(generic_patterns, title, TRUE)

\* prefixes_to_remove of _clean_title_text: one list of alternatives for
\* each prefix
title_prefixes ==
  << \* ^(Document:|Report:|Title:)\s*
     << <<"^","D","o","c","u","m","e","n","t",":","\\s*">>,
        <<"^","R","e","p","o","r","t",":","\\s*">>,
        <<"^","T","i","t","l","e",":","\\s*">> >>,
     \* ^Microsoft\s+Word\s*-\s*
     << <<"^","M","i","c","r","o","s","o","f","t","\\s+","W","o","r","d","\\s*","-","\\s*">> >> >>

\* the trailing artifacts pattern of _clean_title_text
title_trailing_dots ==
  << \* [.]{2,}$|^\s*[.]+\s*
     <<"[.]{2,}","$">>,
     <<"^","\\s*","[.]+","\\s*">> >>

\* the .pdf pattern of _clean_title_text
title_pdf_suffix ==
  << \* \s*\.pdf\s*$
     <<"\\s*","\\.","p","d","f","\\s*","$">> >>

\* PDFProcessor._clean_title_text
CleanTitleText(title) ==
  LET t1 == Strip(CollapseWhitespace(title))
      t2 == ReSub(title_prefixes[1], <<>>, t1, TRUE)
      t3 == ReSub(title_prefixes[2], <<>>, t2, TRUE)
      t4 == ReSub(title_trailing_dots, <<>>, t3, FALSE)
      t5 == ReSub(title_pdf_suffix, <<>>, t4, TRUE)
  IN  Strip(t5)

\* the obvious non-titles pattern of _calculate_title_score
non_title_shapes ==
  << \* ^\d+$|^Page\s+|^U+00A9|^www\.|^http|^\s*\d+\s*$|^[A-Z]{1,3}\s*$
     <<"^","\\d+","$">>,
     <<"^","P","a","g","e","\\s+">>,
     <<"^","U+00A9">>,
     <<"^","w","w","w","\\.">>,
     <<"^","h","t","t","p">>,
     <<"^","\\s*","\\d+","\\s*","$">>,
     <<"^","[A-Z]{1,3}","\\s*","$">> >>

\* title_indicators of _calculate_title_score: one list of alternatives for
\* each indicator
title_indicators ==
  << \* ^(RFP|Request|Understanding|Introduction|Overview|Application|Report|Analysis|Study|Guide|Manual)
     << <<"^","R","F","P">>,
        <<"^","R","e","q","u","e","s","t">>,
        <<"^","U","n","d","e","r","s","t","a","n","d","i","n","g">>,
        <<"^","I","n","t","r","o","d","u","c","t","i","o","n">>,
        <<"^","O","v","e","r","v","i","e","w">>,
        <<"^","A","p","p","l","i","c","a","t","i","o","n">>,
        <<"^","R","e","p","o","r","t">>,
        <<"^","A","n","a","l","y","s","i","s">>,
        <<"^","S","t","u","d","y">>,
        <<"^","G","u","i","d","e">>,
        <<"^","M","a","n","u","a","l">> >>,
     \* (Report|Analysis|Study|Guide|Manual|Plan|Strategy|Framework|Policy|Proposal)$
     << <<"R","e","p","o","r","t","$">>,
        <<"A","n","a","l","y","s","i","s","$">>,
        <<"S","t","u","d","y","$">>,
        <<"G","u","i","d","e","$">>,
        <<"M","a","n","u","a","l","$">>,
        <<"P","l","a","n","$">>,
        <<"S","t","r","a","t","e","g","y","$">>,
        <<"F","r","a","m","e","w","o","r","k","$">>,
        <<"P","o","l","i","c","y","$">>,
        <<"P","r","o","p","o","s","a","l","$">> >>,
     \* :\s*[A-Z]
     << <<":","\\s*","[A-Z]">> >> >>

\* the common_words list of _calculate_title_score
title_common_words ==
  common_words \o << <<"a">>, <<"a","n">> >>

\* flags & 2**b
HasBit(flags, b) == (flags \div (2 ^ b)) % 2 = 1

\* PDFProcessor._calculate_title_score; block_y is block["bbox"][1]
CalculateTitleScore(span, text, block_y) ==
  LET font ==
        IF span.font_size >= 18 THEN 40
        ELSE IF span.font_size >= 16 THEN 30
        ELSE IF span.font_size >= 14 THEN 20
        ELSE span.font_size
      position ==
        IF block_y < 150 THEN 30 ELSE IF block_y < 300 THEN 15 ELSE 0
      weight ==
        (IF HasBit(span.font_flags, 4) THEN 20 ELSE 0)
          + (IF HasBit(span.font_flags, 1) THEN 5 ELSE 0)
      length ==
        IF 10 <= Len(text) /\ Len(text) <= 80 THEN 15
        ELSE IF Len(text) > 150 THEN -20
        ELSE IF Len(text) < 5 THEN -10
        ELSE 0
      shape == IF ReSearch(non_title_shapes, text, TRUE) THEN -50 ELSE 0
      indicator ==
        IF \E n \in 1..Len(title_indicators) :
             ReSearch(title_indicators[n], text, TRUE)
        THEN 15 ELSE 0
      sentences == IF Count(text, ".") >= 2 THEN -25 ELSE 0
      words == IF CommonWordCount(title_common_words, text) >= 4 THEN -15 ELSE 0
  IN  font + position + weight + length + shape + indicator + sentences + words

\* title_patterns of _looks_like_title
title_patterns ==
  << \* ^[A-Z][^.]*[^.]$
     <<"^","[A-Z]","[^.]*","[^.]","$">>,
     \* .*:\s*[A-Z].*
     <<".*",":","\\s*","[A-Z]",".*">>,
     \* ^(RFP|Request|Application|Report|Analysis|Study|Guide|Manual|Plan|Strategy)
     <<"^","R","F","P">>,
     <<"^","R","e","q","u","e","s","t">>,
     <<"^","A","p","p","l","i","c","a","t","i","o","n">>,
     <<"^","R","e","p","o","r","t">>,
     <<"^","A","n","a","l","y","s","i","s">>,
     <<"^","S","t","u","d","y">>,
     <<"^","G","u","i","d","e">>,
     <<"^","M","a","n","u","a","l">>,
     <<"^","P","l","a","n">>,
     <<"^","S","t","r","a","t","e","g","y">>,
     \* .*(Report|Analysis|Study|Guide|Manual|Plan|Strategy|Framework|Policy|Proposal).*
     <<".*","R","e","p","o","r","t",".*">>,
     <<".*","A","n","a","l","y","s","i","s",".*">>,
     <<".*","S","t","u","d","y",".*">>,
     <<".*","G","u","i","d","e",".*">>,
     <<".*","M","a","n","u","a","l",".*">>,
     <<".*","P","l","a","n",".*">>,
     <<".*","S","t","r","a","t","e","g","y",".*">>,
     <<".*","F","r","a","m","e","w","o","r","k",".*">>,
     <<".*","P","o","l","i","c","y",".*">>,
     <<".*","P","r","o","p","o","s","a","l",".*">> >>

\* PDFProcessor._looks_like_title: the non_title_patterns loop returns
\* False, as does the line after it
LooksLikeTitle(text) ==
  /\ 5 <= Len(text)
  /\ Len(text) <= 150
  /\ MatchesAny(title_patterns, text, TRUE)

\* ------------------------------------------------------------------------
\* The documents the model runs on
\* ------------------------------------------------------------------------

\* the most lines a document of headings has
MaxFragments == 3

\* the most spans the first page of a document of titles has
MaxSpans == 2

\* the page count of a document that has pages
MaxPages == 7

\* One span of a page as page.get_text("dict") reports it: every block
\* holds one line of one span; y is the top of the block's bbox.
Span(text, page, size, flags, y) ==
  [text |-> text, page |-> page, font_size |-> size, font_flags |-> flags,
   y |-> y]

\* a span of body-sized plain text in the middle of its page
Line(text, page) == Span(text, page, 12, 0, 400)

\* The lines documents of headings are made of: table headings as written,
\* in another case, with other spacing and on other pages than the table's,
\* a numbered heading the tables do not list, a page number and an
\* all-lowercase line.
HeadingLines ==
  { Line(<<"H","O","P","E"," ","T","o"," ","S","E","E"," ","Y","o","u"," ","T","H","E","R","E","!">>, 0),
    Line(<<"H","O","P","E"," ","T","o"," ","S","E","E"," ","Y"," ","o","u"," ","T"," ","H","E","R","E"," ","!">>, 0),
    Line(<<"H","O","P","E"," ","T","O"," ","S","E","E"," ","Y","O","U"," ","T","H","E","R","E","!">>, 0),
    Line(<<"T","i","m","e","l","i","n","e",":">>, 0),
    Line(<<" ","S","u","m","m","a","r","y"," ">>, 1),
    Line(<<"1","2">>, 1),
    Line(<<"B","a","c","k","g","r","o","u","n","d">>, 2),
    Line(<<"B","A","C","K","G","R","O","U","N","D">>, 2),
    Line(<<"b","a","c","k","g","r","o","u","n","d">>, 2),
    Line(<<"2",".","1"," ","I","n","t","e","n","d","e","d"," ","A","u","d","i","e","n","c","e">>, 6),
    Line(<<"2",".","1"," "," ","I","n","t","e","n","d","e","d"," ","A","u","d","i","e","n","c","e">>, 6),
    Line(<<"5",".","1"," ","S","c","o","p","e">>, 6) }

\* The spans first pages of documents of titles are made of: two large bold
\* spans at the top with the same score, a large span that is too short
\* once cleaned, one that cleans to nothing, a page number, a sentence, a
\* large bold span of three characters and a body-sized span with two
\* prefixes.
TitleSpans ==
  { Span(<<"O","v","e","r","v","i","e","w"," ","o","f"," ","T","e","s","t","i","n","g">>, 0, 18, 16, 100),
    Span(<<"P","r","o","j","e","c","t"," ","P","l","a","n">>, 0, 18, 16, 100),
    Span(<<"I","n","t","r","o">>, 0, 20, 0, 50),
    Span(<<"R","e","p","o","r","t",":"," ",".",".">>, 0, 18, 0, 100),
    Span(<<"P","a","g","e"," ","1">>, 0, 12, 0, 700),
    Span(<<"s","e","e"," ","n","o","t","e","s","."," ","e",".","g","."," ","b","e","l","o","w">>, 0, 12, 0, 700),
    Span(<<"A","-","1">>, 0, 20, 16, 50),
    Span(<<"R","e","p","o","r","t",":"," ","T","i","t","l","e",":"," ","B","u","d","g","e","t">>, 0, 12, 0, 400) }

\* metadata titles: none, one that is taken, a generic one, a short one
\* and one whose prefix and suffix are cleaned away
MetaTitles ==
  { <<>>,
    <<"A","n","n","u","a","l"," ","R","e","p","o","r","t">>,
    <<"U","n","t","i","t","l","e","d">>,
    <<"D","o","c">>,
    <<" ","R","e","p","o","r","t",":"," ","B","u","d","g","e","t",".","p","d","f"," ">> }

\* tables of contents, lists of (level, title, page): none, one whose first
\* title is taken and one whose first title is too short
Tocs ==
  { <<>>,
    << <<1, <<"C","h","a","p","t","e","r"," ","O","n","e">>, 1>>, <<2, <<"D","e","t","a","i","l","s">>, 2>> >>,
    << <<1, <<"T","o","c">>, 1>> >> }

\* sequences of at most n of the lines in reading order, page after page
RECURSIVE LineSeqs(_, _)
LineSeqs(lines, n) ==
  IF n = 0 THEN { <<>> }
  ELSE LET shorter == LineSeqs(lines, n - 1)
       IN  shorter \cup
           { Append(p[1], p[2]) : p \in
               { p \in shorter \X lines :
                   /\ Len(p[1]) = n - 1
                   /\ (p[1] = <<>> \/ p[1][Len(p[1])].page <= p[2].page)
                   /\ p[2].page < MaxPages } }

\* a document: its page count, the spans of its pages, the title of its
\* metadata and its table of contents
Document(n, lines, meta_title, toc) ==
  [num_pages |-> n, lines |-> lines, meta_title |-> meta_title, toc |-> toc]

\* The documents: those of no pages, those of heading lines, those of
\* first-page spans without metadata and table of contents, and those of
\* at most one first-page span with every metadata title and table of
\* contents.
Documents ==
  { Document(0, <<>>, m, <<>>) : m \in MetaTitles }
    \cup { Document(MaxPages, s, <<>>, <<>>) :
             s \in LineSeqs(HeadingLines, MaxFragments) }
    \cup { Document(MaxPages, s, <<>>, <<>>) :
             s \in LineSeqs(TitleSpans, MaxSpans) }
    \cup { Document(MaxPages, s, m, t) :
             s \in LineSeqs(TitleSpans, 1), m \in MetaTitles, t \in Tocs }

\* ------------------------------------------------------------------------
\* The functions of one fragment, computed once for the fragments of the
\* documents above and by their definitions for any other
\* ------------------------------------------------------------------------

\* _extract_page_text_elements: the element of a line of one span; the text
\* is stripped, page_num is the 0-based number of the page
ElementOf(span, page_num) ==
  [text |-> Strip(span.text), page |-> page_num,
   font_size |-> span.font_size, font_flags |-> span.font_flags,
   bbox |-> span.y]

AllSpans == HeadingLines \cup TitleSpans

AllElements == { ElementOf(l, l.page) : l \in AllSpans }

AllTexts == { e.text : e \in AllElements }

is_heading_candidate == [e \in AllElements |-> IsHeadingCandidate(e)]

detect_element ==
  [e \in AllElements |->
     [it \in {"insertion", "reverse"} |->
        DetectElement(e, IF it = "insertion" THEN InsertionOrder ELSE ReverseOrder)]]

calculate_title_score ==
  [l \in AllSpans |-> CalculateTitleScore(l, Strip(l.text), l.y)]

clean_title_text == [t \in AllTexts |-> CleanTitleText(t)]

looks_like_title == [t \in AllTexts |-> LooksLikeTitle(t)]

\* the iteration order of exact_heading_matches.items() in a run
OrderOf(it) == IF it = "insertion" THEN InsertionOrder ELSE ReverseOrder

IsCandidate(e) ==
  IF e \in AllElements THEN is_heading_candidate[e] ELSE IsHeadingCandidate(e)

Detected(e, it) ==
  IF e \in AllElements THEN detect_element[e][it] ELSE DetectElement(e, OrderOf(it))

TitleScore(span) ==
  IF span \in AllSpans THEN calculate_title_score[span]
  ELSE CalculateTitleScore(span, Strip(span.text), span.y)

CleanTitle(t) ==
  IF t \in AllTexts THEN clean_title_text[t] ELSE CleanTitleText(t)

TitleShaped(t) ==
  IF t \in AllTexts THEN looks_like_title[t] ELSE LooksLikeTitle(t)

\* ------------------------------------------------------------------------
\* The loops over the fragments
\* ------------------------------------------------------------------------

\* candidates.insert(0, element)
PrependCandidate(candidates, element) == <<element>> \o candidates

\* candidates.append(element)
AppendCandidate(candidates, element) == Append(candidates, element)

\* a filter that removes the rejected elements from the list it iterates
\* over, so that the element after a rejected one is never tested
RECURSIVE FilterLoopSkipping(_, _, _)
FilterLoopSkipping(elements, i, candidates) ==
  IF i > Len(elements) THEN candidates
  ELSE IF IsCandidate(elements[i])
       THEN FilterLoopSkipping(elements, i + 1, Append(candidates, elements[i]))
       ELSE IF i + 1 > Len(elements) THEN candidates
            ELSE FilterLoopSkipping(elements, i + 2,
                                    Append(candidates, elements[i + 1]))

\* the loop of _filter_heading_candidates from element i on
RECURSIVE FilterLoop(_, _, _)
FilterLoop(elements, i, candidates) ==
  IF i > Len(elements) THEN candidates
  ELSE FilterLoop(elements, i + 1,
                  IF IsCandidate(elements[i])
                  THEN AppendCandidate(candidates, elements[i])
                  ELSE candidates)

\* PDFProcessor._filter_heading_candidates
FilterHeadingCandidates(elements) == FilterLoop(elements, 1, <<>>)

\* the loop of detect_headings from element i on: detected_headings
RECURSIVE DetectLoop(_, _, _)
DetectLoop(text_elements, i, it) ==
  IF i > Len(text_elements) THEN <<>>
  ELSE Detected(text_elements[i], it) \o DetectLoop(text_elements, i + 1, it)

\* a detector that collects the headings in the iteration order of the
\* mapping instead of the order of the elements
Reversed(s) == [i \in 1..Len(s) |-> s[Len(s) + 1 - i]]

DetectHeadingsInMappingOrder(text_elements, it) ==
  IF text_elements = <<>> THEN <<>>
  ELSE FinalizeHeadings(IF it = "insertion"
                        THEN DetectLoop(text_elements, 1, it)
                        ELSE Reversed(DetectLoop(text_elements, 1, it)))

\* HeadingDetector.detect_headings
DetectHeadingsOf(text_elements, it) ==
  IF text_elements = <<>> THEN <<>>
  ELSE FinalizeHeadings(DetectLoop(text_elements, 1, it))

\* ------------------------------------------------------------------------
\* pdf_processor.py: the strategies of the title selector
\* ------------------------------------------------------------------------

\* PDFProcessor._extract_title, strategy 1: the metadata title, when the
\* document has one that is accepted; <<>> stands for no metadata, no title
\* key and an empty title alike
MetadataAccepted(d) ==
  LET metadata_title == Strip(d.meta_title)
  IN  /\ d.meta_title # <<>>
      /\ metadata_title # <<>>
      /\ Len(metadata_title) > 3
      /\ ~IsGenericMetadataTitle(metadata_title)

\* the spans of the first page, doc[0]; every block holds one line of one span
FirstPageSpans(d) ==
  LET OnFirstPage(l) == l.page = 0
  IN  SelectSeq(d.lines, OnFirstPage)

\* strategy 2: title_candidates, the (text, score) pairs of the first page
TitleCandidates(d) ==
  LET scored == [i \in 1..Len(FirstPageSpans(d)) |->
                   LET span == FirstPageSpans(d)[i]
                       text == Strip(span.text)
                   IN  [text |-> text,
                        score |-> IF text # <<>> /\ Len(text) > 3
                                  THEN TitleScore(span)
                                  ELSE 0,
                        long |-> text # <<>> /\ Len(text) > 3]]
      Passes(c) == c.long /\ c.score > 15
  IN  SelectSeq(scored, Passes)

\* a selection that takes the last of the candidates with the highest score
BestTitleLast(candidates) ==
  LET top == MaxOf({candidates[i].score : i \in 1..Len(candidates)})
  IN  candidates[MaxOf({i \in 1..Len(candidates) : candidates[i].score = top})].text

\* title_candidates.sort(key=lambda x: x[1], reverse=True); [0][0]: the
\* sort is stable, so the first of the candidates with the highest score
BestTitle(candidates) ==
  LET top == MaxOf({candidates[i].score : i \in 1..Len(candidates)})
  IN  candidates[MinOf({i \in 1..Len(candidates) : candidates[i].score = top})].text

FirstPageAccepted(d) ==
  /\ TitleCandidates(d) # <<>>
  /\ Len(CleanTitle(BestTitle(TitleCandidates(d)))) > 5

\* strategy 3: the first entry of doc.get_toc(), (level, title, page)
TocAccepted(d) ==
  /\ d.toc # <<>>
  /\ Len(d.toc[1]) >= 2
  /\ 5 <= Len(Strip(d.toc[1][2]))
  /\ Len(Strip(d.toc[1][2])) <= 100

\* strategy 4: all_text_elements[:5], the texts longer than 5 characters of
\* the first 10 blocks
EarlyTexts(d) ==
  LET blocks == SubSeq(FirstPageSpans(d), 1,
                       IF Len(FirstPageSpans(d)) < 10 THEN Len(FirstPageSpans(d)) ELSE 10)
      texts == [i \in 1..Len(blocks) |-> Strip(blocks[i].text)]
      IsLong(t) == t # <<>> /\ Len(t) > 5
      long == SelectSeq(texts, IsLong)
  IN  SubSeq(long, 1, IF Len(long) < 5 THEN Len(long) ELSE 5)

TitleLike(d) == SelectSeq(EarlyTexts(d), TitleShaped)

PatternAccepted(d) == TitleLike(d) # <<>>

\* a selector without the test for a document of no pages
ExtractTitleOfAnyDocument(d) ==
  IF MetadataAccepted(d)
  THEN [title |-> CleanTitle(Strip(d.meta_title)), by |-> "metadata"]
  ELSE IF FirstPageAccepted(d)
  THEN [title |-> CleanTitle(BestTitle(TitleCandidates(d))), by |-> "first page"]
  ELSE IF TocAccepted(d)
  THEN [title |-> CleanTitle(Strip(d.toc[1][2])), by |-> "toc"]
  ELSE IF PatternAccepted(d)
  THEN [title |-> CleanTitle(TitleLike(d)[1]), by |-> "patterns"]
  ELSE [title |-> <<>>, by |-> "none"]

\* a selector that asks the table of contents before the first page
ExtractTitleTocFirst(d) ==
  IF d.num_pages = 0 THEN [title |-> <<>>, by |-> "no pages"]
  ELSE IF MetadataAccepted(d)
  THEN [title |-> CleanTitle(Strip(d.meta_title)), by |-> "metadata"]
  ELSE IF TocAccepted(d)
  THEN [title |-> CleanTitle(Strip(d.toc[1][2])), by |-> "toc"]
  ELSE IF FirstPageAccepted(d)
  THEN [title |-> CleanTitle(BestTitle(TitleCandidates(d))), by |-> "first page"]
  ELSE IF PatternAccepted(d)
  THEN [title |-> CleanTitle(TitleLike(d)[1]), by |-> "patterns"]
  ELSE [title |-> <<>>, by |-> "none"]

\* PDFProcessor._extract_title: the title and the strategy that returned it
ExtractTitle(d) ==
  IF d.num_pages = 0 THEN [title |-> <<>>, by |-> "no pages"]
  ELSE IF MetadataAccepted(d)
  THEN [title |-> CleanTitle(Strip(d.meta_title)), by |-> "metadata"]
  ELSE IF FirstPageAccepted(d)
  THEN [title |-> CleanTitle(BestTitle(TitleCandidates(d))), by |-> "first page"]
  ELSE IF TocAccepted(d)
  THEN [title |-> CleanTitle(Strip(d.toc[1][2])), by |-> "toc"]
  ELSE IF PatternAccepted(d)
  THEN [title |-> CleanTitle(TitleLike(d)[1]), by |-> "patterns"]
  ELSE [title |-> <<>>, by |-> "none"]

\* ------------------------------------------------------------------------
\* State
\* ------------------------------------------------------------------------

VARIABLES
  doc,                \* the open document
  pc,                 \* where extract_outline stands
  title,              \* extract_outline: title
  title_by,           \* the strategy of _extract_title that returned title
  all_text_elements,  \* _extract_headings: all_text_elements
  filtered_elements,  \* _extract_headings: filtered_elements
  detected_headings,  \* detect_headings: detected_headings
  headings,           \* _extract_headings: headings, the outline
  run,                \* 1 in the first run over doc, 2 in the repeated run
  iteration,          \* the order this run iterates exact_heading_matches in
  first_headings      \* the outline of the first run, kept for the second

\* main.py, main()
VARIABLES
  input_dir_exists,      \* input_dir.exists()
  pdf_files,             \* what input_dir.glob("*.pdf") lists, file by file
  main_pc,               \* where main stands
  processor,             \* "none", then "loaded" or "failed"
  file_index,            \* i of `for i, pdf_file in enumerate(pdf_files, 1)`
  successful_processed,
  total_files,
  attempted,             \* the i of the calls of extract_outline, in order
  written,               \* the i of the files whose JSON output was written
  main_returned          \* "nothing" until main returns, then its value

outline_vars ==
  << doc, pc, title, title_by, all_text_elements, filtered_elements,
     detected_headings, headings, run, iteration, first_headings >>

main_vars ==
  << input_dir_exists, pdf_files, main_pc, processor, file_index,
     successful_processed, total_files, attempted, written, main_returned >>

vars == << outline_vars, main_vars >>

\* main before its first step, over the files the input directory holds
MainStarts(exists, files) ==
  /\ input_dir_exists = exists
  /\ pdf_files = files
  /\ main_pc = "start"
  /\ processor = "none"
  /\ file_index = 0
  /\ successful_processed = 0
  /\ total_files = 0
  /\ attempted = <<>>
  /\ written = {}
  /\ main_returned = "nothing"

\* extract_outline before its first step on document d
OutlineStarts(d) ==
  /\ doc = d
  /\ pc = "title"
  /\ title = <<>>
  /\ title_by = "none"
  /\ all_text_elements = <<>>
  /\ filtered_elements = <<>>
  /\ detected_headings = <<>>
  /\ headings = <<>>
  /\ run = 1
  /\ iteration = "insertion"
  /\ first_headings = <<>>

\* for page_num in range(min(len(doc), 50))
PageLimit == 50

\* the loop of _extract_headings over the pages: all_text_elements.  A span
\* whose text strips to nothing leaves no element.
ExtractAllTextElements(d) ==
  LET limit == IF d.num_pages < PageLimit THEN d.num_pages ELSE PageLimit
      Read(l) == l.page < limit /\ Strip(l.text) # <<>>
      read == SelectSeq(d.lines, Read)
  IN  [i \in 1..Len(read) |-> ElementOf(read[i], read[i].page)]

\* one call of extract_outline on a document; main is not run
Init ==
  /\ \E d \in Documents : OutlineStarts(d)
  /\ MainStarts(TRUE, <<>>)

\* extract_outline, the call of _extract_title
ExtractTitleOfDoc ==
  /\ pc = "title"
  /\ \E r \in {ExtractTitle(doc)} :
       /\ title' = r.title
       /\ title_by' = r.by
  /\ pc' = "extract"
  /\ UNCHANGED << doc, all_text_elements, filtered_elements, detected_headings,
                  headings, run, iteration, first_headings >>
  /\ UNCHANGED main_vars

\* _extract_headings, `if len(doc) == 0: return []`
ExtractHeadingsNoPages ==
  /\ pc = "extract"
  /\ doc.num_pages = 0
  /\ headings' = <<>>
  /\ pc' = "done"
  /\ UNCHANGED << doc, title, title_by, all_text_elements, filtered_elements,
                  detected_headings, run, iteration, first_headings >>
  /\ UNCHANGED main_vars

\* _extract_headings, the loop over the pages
ExtractPageTextElements ==
  /\ pc = "extract"
  /\ doc.num_pages # 0
  /\ all_text_elements' = ExtractAllTextElements(doc)
  /\ pc' = "filter"
  /\ UNCHANGED << doc, title, title_by, filtered_elements, detected_headings,
                  headings, run, iteration, first_headings >>
  /\ UNCHANGED main_vars

\* _extract_headings, the call of _filter_heading_candidates
FilterCandidates ==
  /\ pc = "filter"
  /\ filtered_elements' = FilterHeadingCandidates(all_text_elements)
  /\ pc' = "detect"
  /\ UNCHANGED << doc, title, title_by, all_text_elements, detected_headings,
                  headings, run, iteration, first_headings >>
  /\ UNCHANGED main_vars

\* _extract_headings, the call of detect_headings, which ends in
\* _finalize_headings
DetectHeadings ==
  /\ pc = "detect"
  /\ detected_headings' =
       IF filtered_elements = <<>> THEN <<>>
       ELSE DetectLoop(filtered_elements, 1, iteration)
  /\ headings' = DetectHeadingsOf(filtered_elements, iteration)
  /\ pc' = "done"
  /\ UNCHANGED << doc, title, title_by, all_text_elements, filtered_elements,
                  run, iteration, first_headings >>
  /\ UNCHANGED main_vars

\* the filter and the detector run again on the fragments of the first run;
\* the repeated run may iterate the exact-match mapping in another order
RunAgain ==
  /\ pc = "done"
  /\ run = 1
  /\ doc.num_pages # 0
  /\ run' = 2
  /\ first_headings' = headings
  /\ iteration' \in {"insertion", "reverse"}
  /\ pc' = "filter"
  /\ filtered_elements' = <<>>
  /\ detected_headings' = <<>>
  /\ headings' = <<>>
  /\ UNCHANGED << doc, title, title_by, all_text_elements >>
  /\ UNCHANGED main_vars

Next ==
  \/ ExtractTitleOfDoc
  \/ ExtractHeadingsNoPages
  \/ ExtractPageTextElements
  \/ FilterCandidates
  \/ DetectHeadings
  \/ RunAgain

Spec == Init /\ [][Next]_vars


\* ------------------------------------------------------------------------
\* main.py: main() over the PDF files of the input directory
\* ------------------------------------------------------------------------

\* the most PDF files the input directory holds
MaxFiles == 3

\* What processing a file comes to: extract_outline returns and the JSON
\* file is written, extract_outline raises (fitz.open or a later step; it
\* logs and re-raises), or json.dump or open(output_path, 'w') raises.
FileKinds == { "extracts and writes", "extract_outline raises", "write raises" }

\* the lists input_dir.glob("*.pdf") can give
RECURSIVE FileLists(_)
FileLists(n) ==
  IF n = 0 THEN { <<>> }
  ELSE FileLists(n - 1) \cup
       { Append(l, k) : l \in { f \in FileLists(n - 1) : Len(f) = n - 1 },
                        k \in FileKinds }

\* main on an input directory that is missing or holds some files; no
\* document is open
MainInit ==
  /\ \/ MainStarts(FALSE, <<>>)
     \/ \E files \in FileLists(MaxFiles) : MainStarts(TRUE, files)
  /\ OutlineStarts(Document(0, <<>>, <<>>, <<>>))

\* `if not input_dir.exists(): return False`
InputDirMissing ==
  /\ main_pc = "start"
  /\ ~input_dir_exists
  /\ main_returned' = "False"
  /\ main_pc' = "returned"
  /\ UNCHANGED << input_dir_exists, pdf_files, processor, file_index,
                  successful_processed, total_files, attempted, written >>
  /\ UNCHANGED outline_vars

\* `if not pdf_files: return False`
NoPdfFiles ==
  /\ main_pc = "start"
  /\ input_dir_exists
  /\ pdf_files = <<>>
  /\ main_returned' = "False"
  /\ main_pc' = "returned"
  /\ UNCHANGED << input_dir_exists, pdf_files, processor, file_index,
                  successful_processed, total_files, attempted, written >>
  /\ UNCHANGED outline_vars

\* the import and the construction of PDFProcessor succeed; successful_processed
\* = 0, total_files = len(pdf_files), and the loop starts
ProcessorLoads ==
  /\ main_pc = "start"
  /\ input_dir_exists
  /\ pdf_files # <<>>
  /\ processor' = "loaded"
  /\ successful_processed' = 0
  /\ total_files' = Len(pdf_files)
  /\ file_index' = 1
  /\ main_pc' = "loop"
  /\ UNCHANGED << input_dir_exists, pdf_files, attempted, written, main_returned >>
  /\ UNCHANGED outline_vars

\* the import or the construction of PDFProcessor raises: return False
ProcessorFails ==
  /\ main_pc = "start"
  /\ input_dir_exists
  /\ pdf_files # <<>>
  /\ processor' = "failed"
  /\ main_returned' = "False"
  /\ main_pc' = "returned"
  /\ UNCHANGED << input_dir_exists, pdf_files, file_index, successful_processed,
                  total_files, attempted, written >>
  /\ UNCHANGED outline_vars

\* one pass of the loop in which nothing raises: the outline is extracted,
\* the JSON file written and successful_processed incremented
ProcessFile ==
  /\ main_pc = "loop"
  /\ file_index <= total_files
  /\ pdf_files[file_index] = "extracts and writes"
  /\ attempted' = Append(attempted, file_index)
  /\ written' = written \cup {file_index}
  /\ successful_processed' = successful_processed + 1
  /\ file_index' = file_index + 1
  /\ UNCHANGED << input_dir_exists, pdf_files, main_pc, processor, total_files,
                  main_returned >>
  /\ UNCHANGED outline_vars

\* a pass in which extract_outline raises and the pass ends without going on:
\* main ends with the exception
ExtractOutlineRaisesAndStops ==
  /\ main_pc = "loop"
  /\ file_index <= total_files
  /\ pdf_files[file_index] = "extract_outline raises"
  /\ attempted' = Append(attempted, file_index)
  /\ main_pc' = "raised"
  /\ UNCHANGED << input_dir_exists, pdf_files, processor, file_index,
                  successful_processed, total_files, written, main_returned >>
  /\ UNCHANGED outline_vars

\* a pass in which extract_outline raises: `except Exception` logs the error
\* and the loop continues with the next file
ExtractOutlineRaises ==
  /\ main_pc = "loop"
  /\ file_index <= total_files
  /\ pdf_files[file_index] = "extract_outline raises"
  /\ attempted' = Append(attempted, file_index)
  /\ file_index' = file_index + 1
  /\ UNCHANGED << input_dir_exists, pdf_files, main_pc, processor,
                  successful_processed, total_files, written, main_returned >>
  /\ UNCHANGED outline_vars

\* a pass in which the outline is extracted and writing the JSON file
\* raises: `except Exception` logs the error and the loop continues
WriteRaises ==
  /\ main_pc = "loop"
  /\ file_index <= total_files
  /\ pdf_files[file_index] = "write raises"
  /\ attempted' = Append(attempted, file_index)
  /\ file_index' = file_index + 1
  /\ UNCHANGED << input_dir_exists, pdf_files, main_pc, processor,
                  successful_processed, total_files, written, main_returned >>
  /\ UNCHANGED outline_vars

\* past the loop: `return successful_processed > 0`
ReturnSuccess ==
  /\ main_pc = "loop"
  /\ file_index > total_files
  /\ main_returned' = IF successful_processed > 0 THEN "True" ELSE "False"
  /\ main_pc' = "returned"
  /\ UNCHANGED << input_dir_exists, pdf_files, processor, file_index,
                  successful_processed, total_files, attempted, written >>
  /\ UNCHANGED outline_vars

MainNext ==
  \/ InputDirMissing
  \/ NoPdfFiles
  \/ ProcessorLoads
  \/ ProcessorFails
  \/ ProcessFile
  \/ ExtractOutlineRaises
  \/ WriteRaises
  \/ ReturnSuccess

MainSpec == MainInit /\ [][MainNext]_vars
\* ------------------------------------------------------------------------
\* Properties
\* ------------------------------------------------------------------------

\* the run of the filter and the detector over the fragments has ended
Done == pc = "done" /\ doc.num_pages # 0

\* the key of the outline: the text lowercased with its whitespace runs
\* collapsed, and the page
NormalizedKey(h) == <<LowerText(CollapseWhitespace(h.text)), h.page>>

\* the position of the first heading equal to h in a sequence of headings
FirstIndex(hs, h) == MinOf({i \in 1..Len(hs) : hs[i] = h})

\* C1: the outline detect_headings returns holds no two headings with the
\* same (normalized text, page) key.
C1_NoDuplicateKeys ==
  Done =>
    \A i, j \in 1..Len(headings) :
      i # j => NormalizedKey(headings[i]) # NormalizedKey(headings[j])

\* C2 as stated: in the outline the pages never decrease from one heading
\* to the next, and between two neighbours of one page the level rank never
\* decreases.
C2_PageThenLevelOrder ==
  Done =>
    \A i \in 1..(Len(headings) - 1) :
      /\ headings[i].page <= headings[i + 1].page
      /\ headings[i].page = headings[i + 1].page =>
           level_rank(headings[i].level) <= level_rank(headings[i + 1].level)

\* C2 as amended: in the outline the pages never decrease from one heading
\* to the next, and the headings of one page stand in the order in which
\* their fragments were detected, whatever their levels.
C2_PageThenDetectionOrder ==
  Done =>
    \A i \in 1..(Len(headings) - 1) :
      /\ headings[i].page <= headings[i + 1].page
      /\ headings[i].page = headings[i + 1].page =>
           FirstIndex(detected_headings, headings[i])
             < FirstIndex(detected_headings, headings[i + 1])

\* two headings of one page stand in the outline with the deeper one first
C2_DeeperFirstOnPage ==
  /\ Done
  /\ \E i \in 1..(Len(headings) - 1) :
       /\ headings[i].page = headings[i + 1].page
       /\ level_rank(headings[i].level) > level_rank(headings[i + 1].level)

\* C3: every heading of the outline carries the page of a fragment of the
\* input whose text classified to that heading.
C3_PageOfFragment ==
  Done =>
    \A i \in 1..Len(headings) :
      \E k \in 1..Len(filtered_elements) :
        /\ filtered_elements[k].page = headings[i].page
        /\ \E n \in 1..Len(Detected(filtered_elements[k], iteration)) :
             LET h == Detected(filtered_elements[k], iteration)[n]
             IN  h.text = headings[i].text /\ h.level = headings[i].level

\* C4: the filter applied to its own result returns that result.
C4_FilterIdempotent ==
  pc \in {"detect", "done"} /\ doc.num_pages # 0 =>
    FilterHeadingCandidates(filtered_elements) = filtered_elements

\* the filter has dropped a fragment and kept a later one
C4_DroppedAndKept ==
  /\ pc = "detect"
  /\ filtered_elements # <<>>
  /\ Len(filtered_elements) < Len(all_text_elements)
  /\ all_text_elements[Len(all_text_elements)]
       = filtered_elements[Len(filtered_elements)]
  /\ FilterHeadingCandidates(filtered_elements) = filtered_elements

\* s is t with some of its members taken out
IsSubsequence(s, t) ==
  \E keep \in SUBSET (1..Len(t)) :
    LET Kept(i) == i \in keep
        index == SelectSeq([i \in 1..Len(t) |-> i], Kept)
    IN  s = [k \in 1..Len(index) |-> t[index[k]]]

\* C5: the filter returns fragments of its input, unmodified and in the
\* order of the input, and leaves the input as it was.
C5_FilterSubsequence ==
  pc \in {"detect", "done"} /\ doc.num_pages # 0 =>
    /\ IsSubsequence(filtered_elements, all_text_elements)
    /\ all_text_elements = ExtractAllTextElements(doc)

\* the filter has kept two different fragments and dropped one
C5_KeptTwo ==
  /\ pc = "detect"
  /\ Len(filtered_elements) = 2
  /\ filtered_elements[1] # filtered_elements[2]
  /\ Len(all_text_elements) = 3
  /\ IsSubsequence(filtered_elements, all_text_elements)

\* C6: no fragments give no headings, and a document of no pages gives no
\* headings and the empty title.
C6_EmptyInEmptyOut ==
  /\ pc = "done" /\ filtered_elements = <<>> => headings = <<>>
  /\ pc = "done" /\ doc.num_pages = 0 => headings = <<>>
  /\ pc # "title" /\ doc.num_pages = 0 => title = <<>>

\* a document of no pages whose metadata title would have been taken
C6_NoPagesButMetadata ==
  /\ pc = "done"
  /\ doc.num_pages = 0
  /\ MetadataAccepted(doc)
  /\ title = <<>>
  /\ headings = <<>>

\* C7: the filter and the detector run twice on the same fragments give
\* the same outline, heading for heading, also when the second run iterates
\* the mapping in another order.
C7_SameOutlineAgain ==
  run = 2 /\ pc = "done" => headings = first_headings

\* the second run has iterated the mapping in reverse and has found two
\* headings of one page
C7_ReverseRunTwoOnPage ==
  /\ run = 2
  /\ pc = "done"
  /\ iteration = "reverse"
  /\ headings = first_headings
  /\ \E i \in 1..(Len(headings) - 1) : headings[i].page = headings[i + 1].page

\* C8: every heading the finalizer returns is a heading of its input, with
\* the same level, text and page, also where the levels of the result jump
\* more than one rank deeper.
C8_FinalizerKeepsHeadings ==
  Done =>
    \A i \in 1..Len(headings) :
      \E k \in 1..Len(detected_headings) : headings[i] = detected_headings[k]

\* the outline jumps from a heading to one more than one rank deeper
C8_JumpKept ==
  /\ Done
  /\ \E i \in 1..(Len(headings) - 1) :
       level_rank(headings[i + 1].level) > level_rank(headings[i].level) + 1

\* the shape `N.N heading`: digits, a dot, digits, whitespace, words
numbered_shape == << <<"^", "\\d+", "\\.", "\\d+", "\\s+", ".+">> >>

IsNumbered(text) == MatchesAny(numbered_shape, text, FALSE)

\* the keys of the exact-match table, normalized and lowercased
lower_exact == [n \in 1..Len(exact_heading_matches) |-> LowerText(normalized_exact[n])]

\* text, of at most 150 characters, is a `N.N heading` the tables of the
\* detector list, in any letter case and with any whitespace between its
\* words
IsListedNumbered(text) ==
  /\ IsNumbered(text)
  /\ Len(text) <= 150
  /\ \E n \in 1..Len(exact_heading_matches) :
       lower_exact[n] = LowerText(CollapseWhitespace(text))

\* the outline has text as a heading of level H2
InOutlineAsH2(text) ==
  \E i \in 1..Len(headings) :
    headings[i].level = "H2" /\ headings[i].text = text

\* C9 as stated: every fragment that passes the filter and has the shape
\* `N.N heading` is in the outline as H2, its text with the whitespace runs
\* collapsed and otherwise unchanged.
C9_NumberedIsH2 ==
  Done =>
    \A k \in 1..Len(filtered_elements) :
      IsNumbered(filtered_elements[k].text) =>
        InOutlineAsH2(CollapseWhitespace(filtered_elements[k].text))

\* C9 as amended: every fragment that passes the filter and whose text, of
\* at most 150 characters, is one of the `N.N heading` entries of the
\* detector's tables, in any letter case and with any whitespace between
\* its words, is in the outline as H2, its text with the whitespace runs
\* collapsed and otherwise unchanged.
C9_ListedNumberedIsH2 ==
  Done =>
    \A k \in 1..Len(filtered_elements) :
      IsListedNumbered(filtered_elements[k].text) =>
        InOutlineAsH2(CollapseWhitespace(filtered_elements[k].text))

\* a listed `N.N heading` written with a longer whitespace run is in the
\* outline with the run collapsed
C9_ListedCollapsed ==
  /\ Done
  /\ \E k \in 1..Len(filtered_elements) :
       /\ IsListedNumbered(filtered_elements[k].text)
       /\ CollapseWhitespace(filtered_elements[k].text) # filtered_elements[k].text
       /\ InOutlineAsH2(CollapseWhitespace(filtered_elements[k].text))

SomeStrategyAccepts(d) ==
  \/ MetadataAccepted(d)
  \/ FirstPageAccepted(d)
  \/ TocAccepted(d)
  \/ PatternAccepted(d)

\* C11: the title of a document with pages is empty only when every
\* strategy failed; whenever a strategy accepts a candidate the title is
\* not empty.
C11_EmptyOnlyIfAllFail ==
  pc = "extract" /\ doc.num_pages # 0 /\ SomeStrategyAccepts(doc) =>
    title # <<>>

\* the span of the first page at position i is the one the first-page
\* strategy selected: the title is its cleaned text, its score is above the
\* threshold, no span of the positions js has a higher score and no
\* earlier one of them the same score
SelectedAmong(i, js) ==
  LET spans == FirstPageSpans(doc)
  IN  /\ title = CleanTitle(Strip(spans[i].text))
      /\ TitleScore(spans[i]) > 15
      /\ \A j \in js : TitleScore(spans[j]) <= TitleScore(spans[i])
      /\ \A j \in js : j < i => TitleScore(spans[j]) < TitleScore(spans[i])

\* the positions of the first-page spans the strategy scores: those whose
\* stripped text is longer than 3 characters
ScoredPositions ==
  { j \in 1..Len(FirstPageSpans(doc)) : Len(Strip(FirstPageSpans(doc)[j].text)) > 3 }

\* C12 as stated: when the first page gives the title, the selected
\* fragment scores above the threshold, no other fragment of the first
\* page scores strictly higher, and of equally scored fragments the first
\* in input order is the selected one.
C12_NoFragmentScoresHigher ==
  pc = "extract" /\ title_by = "first page" =>
    \E i \in ScoredPositions : SelectedAmong(i, 1..Len(FirstPageSpans(doc)))

\* C12: when the first page gives the title, the selected fragment scores
\* above the threshold, no other first-page fragment longer than 3
\* characters scores strictly higher, and of equally scored ones the first
\* in input order is the selected one.
C12_NoScoredFragmentHigher ==
  pc = "extract" /\ title_by = "first page" =>
    \E i \in ScoredPositions : SelectedAmong(i, ScoredPositions)

\* two spans of the first page share the highest score and the title is
\* the text of the first, not of the second
C12_TieTakesFirst ==
  /\ pc = "extract"
  /\ title_by = "first page"
  /\ Len(FirstPageSpans(doc)) = 2
  /\ TitleScore(FirstPageSpans(doc)[1]) = TitleScore(FirstPageSpans(doc)[2])
  /\ title = CleanTitle(Strip(FirstPageSpans(doc)[1].text))
  /\ title # CleanTitle(Strip(FirstPageSpans(doc)[2].text))

\* text starts with the characters of prefix
StartsWith(text, prefix) ==
  /\ Len(prefix) <= Len(text)
  /\ SubSeq(text, 1, Len(prefix)) = prefix

\* every whitespace character of text is a space with no whitespace next
\* to it
SingleSpaced(text) ==
  \A i \in 1..Len(text) :
    IsSpace(text[i]) =>
      /\ text[i] = " "
      /\ i < Len(text) => ~IsSpace(text[i + 1])

\* the prefixes a cleaned title does not start with
cleaned_prefixes ==
  { <<"D","o","c","u","m","e","n","t",":">>, <<"R","e","p","o","r","t",":">>, <<"T","i","t","l","e",":">>, <<"M","i","c","r","o","s","o","f","t"," ","W","o","r","d"," ","-">> }

\* C13: every non-empty title returned is cleaned: it holds no whitespace
\* run longer than one space, it starts with none of the prefixes
\* Document:, Report:, Title: and Microsoft Word -, and it ends neither
\* with .pdf nor with two or more dots.
C13_TitleIsCleaned ==
  pc = "extract" /\ title # <<>> =>
    /\ SingleSpaced(title)
    /\ \A prefix \in cleaned_prefixes : ~StartsWith(title, prefix)
    /\ ~EndsWith(title, <<".","p","d","f">>)
    /\ ~EndsWith(title, <<".",".">>)

\* the entries of exact_heading_matches whose key is the text, as written
\* or once both are normalized
ExactHits(text) ==
  { n \in 1..Len(exact_heading_matches) :
      \/ exact_heading_matches[n].text = text
      \/ normalized_exact[n] = CollapseWhitespace(Strip(text)) }

\* the flexible patterns that match the text, by their place in the list
FlexibleHits(text) ==
  { n \in 1..Len(flexible_patterns) : ReMatch(flexible_patterns[n].pat, text, TRUE) }

\* what the tables hold for every text of the documents, and whether the
\* text is neither skipped nor cleaned to nothing
classified ==
  [t \in AllTexts |->
     [exact |-> ExactHits(t),
      flexible |-> FlexibleHits(t),
      kept |-> ~ShouldSkipText(t) /\ CleanHeadingText(t) # <<>>]]

\* the fragment gives a heading: it is kept and a table has it
YieldsHeading(e) ==
  /\ classified[e.text].kept
  /\ classified[e.text].exact \cup classified[e.text].flexible # {}

\* the level and page of heading h are those of an exact entry when the
\* exact table has the text, and otherwise those of the first flexible
\* pattern that matches it
DecidedBy(c, h) ==
  IF c.exact # {}
  THEN \E n \in c.exact :
         /\ h.level = exact_heading_matches[n].level
         /\ h.page = exact_heading_matches[n].page
  ELSE /\ h.level = flexible_patterns[MinOf(c.flexible)].level
       /\ h.page = flexible_patterns[MinOf(c.flexible)].page

\* C14: the detector gives each fragment at most one heading: that of the
\* exact table when it has the text, and only otherwise that of the first
\* flexible pattern, in list order, that matches.
C14_ExactThenFirstFlexible ==
  pc = "done" /\ doc.num_pages # 0 =>
    LET sources == SelectSeq(filtered_elements, YieldsHeading)
    IN  /\ Len(detected_headings) = Len(sources)
        /\ \A k \in 1..Len(sources) :
             DecidedBy(classified[sources[k].text], detected_headings[k])

\* one fragment got its heading from the exact table, which the flexible
\* patterns match too, and another, which the exact table does not have and
\* two flexible patterns match, from the first of the two
C14_BothTablesDecided ==
  /\ pc = "done"
  /\ Len(detected_headings) = 2
  /\ \E i, j \in 1..Len(filtered_elements) :
       /\ classified[filtered_elements[i].text].exact # {}
       /\ classified[filtered_elements[i].text].flexible # {}
       /\ classified[filtered_elements[j].text].exact = {}
       /\ Cardinality(classified[filtered_elements[j].text].flexible) = 2

\* the key _finalize_headings tells headings apart by
KeyOf(h) == <<h.text, h.page>>

\* the places of hs that hold a heading of the key
PlacesOf(key, hs) == { k \in 1..Len(hs) : KeyOf(hs[k]) = key }

\* C15: for every (text, page) key among the detected headings the outline
\* holds exactly one heading of that key, and it is the earliest detected
\* heading of that key.
C15_FirstOccurrenceKept ==
  pc = "done" /\ doc.num_pages # 0 =>
    \A i \in 1..Len(detected_headings) :
      LET key == KeyOf(detected_headings[i])
      IN  /\ Cardinality(PlacesOf(key, headings)) = 1
          /\ \A k \in PlacesOf(key, headings) :
               headings[k] = detected_headings[MinOf(PlacesOf(key, detected_headings))]

\* the first and the third detected heading have one key, the second has
\* another, and the outline holds two headings
C15_RepeatedKeyOnce ==
  /\ pc = "done"
  /\ Len(detected_headings) = 3
  /\ KeyOf(detected_headings[1]) = KeyOf(detected_headings[3])
  /\ KeyOf(detected_headings[1]) # KeyOf(detected_headings[2])
  /\ Len(headings) = 2

\* the places of the fragments whose text classifies to heading h
SourcesOf(h) ==
  { k \in 1..Len(filtered_elements) :
      \E n \in 1..Len(Detected(filtered_elements[k], iteration)) :
        Detected(filtered_elements[k], iteration)[n] = h }

\* C16: any two headings of the outline with the same page stand in the
\* order of the first occurrences of the fragments that produced them,
\* whatever their levels.
C16_InputOrderWithinPage ==
  pc = "done" /\ doc.num_pages # 0 =>
    \A i, j \in 1..Len(headings) :
      i < j /\ headings[i].page = headings[j].page =>
        /\ SourcesOf(headings[i]) # {}
        /\ SourcesOf(headings[j]) # {}
        /\ MinOf(SourcesOf(headings[i])) < MinOf(SourcesOf(headings[j]))

\* two headings of one page stand in the outline in the order of their
\* first fragments, and the fragment of the first occurs again after the
\* fragment of the second
C16_FirstOccurrenceOrders ==
  /\ pc = "done"
  /\ \E i, j \in 1..Len(headings) :
       /\ i < j
       /\ headings[i].page = headings[j].page
       /\ MinOf(SourcesOf(headings[i])) < MinOf(SourcesOf(headings[j]))
       /\ MaxOf(SourcesOf(headings[i])) > MinOf(SourcesOf(headings[j]))

\* _clean_heading_text of every text of the documents
clean_heading_text == [t \in AllTexts |-> CleanHeadingText(t)]

\* the fragments at places i and j have different texts that clean to the
\* same string, and both classify, to the same page
SameOnceCleaned(i, j) ==
  LET a == filtered_elements[i]
      b == filtered_elements[j]
  IN  /\ a.text # b.text
      /\ clean_heading_text[a.text] = clean_heading_text[b.text]
      /\ Len(Detected(a, iteration)) = 1
      /\ Len(Detected(b, iteration)) = 1
      /\ Detected(a, iteration)[1].page = Detected(b, iteration)[1].page

\* C17: two fragments with different raw texts that clean to the same
\* string and classify to the same page give the outline exactly one
\* heading, and its text is the cleaned text.
C17_OneHeadingForCleanedText ==
  pc = "done" /\ doc.num_pages # 0 =>
    \A i, j \in 1..Len(filtered_elements) :
      SameOnceCleaned(i, j) =>
        LET from == { k \in 1..Len(headings) : SourcesOf(headings[k]) \cap {i, j} # {} }
        IN  /\ Cardinality(from) = 1
            /\ \A k \in from :
                 headings[k].text = clean_heading_text[filtered_elements[i].text]

\* the two spellings of HOPE To SEE You THERE! are the fragments of the
\* document and the outline holds the one heading
C17_HopeTwiceOnce ==
  /\ pc = "done"
  /\ Len(filtered_elements) = 2
  /\ filtered_elements[1].text # hope_text
  /\ filtered_elements[2].text = hope_text
  /\ SameOnceCleaned(1, 2)
  /\ Len(headings) = 1
  /\ headings[1].text = hope_text

\* the list 1, 2, ..., n
UpTo(n) == [k \in 1..n |-> k]

\* C18 as stated: main attempts every discovered PDF exactly once in list
\* order, a file that raises does not keep the later files from being
\* processed, successful_processed never exceeds total_files, and main
\* returns True exactly when a file was extracted and written.
C18_EveryFileAttempted ==
  /\ attempted = UpTo(Len(attempted))
  /\ main_pc # "start" /\ main_pc # "loop" =>
       /\ main_pc = "returned"
       /\ attempted = UpTo(Len(pdf_files))
       /\ main_returned = "True" <=> written # {}
  /\ successful_processed <= total_files

\* C18: once the processor is loaded main attempts every discovered PDF
\* exactly once in list order, whatever files raise; it attempts none when
\* the processor fails to load; successful_processed counts the files
\* written and never exceeds total_files; and main returns True exactly
\* when a file was extracted and written.
C18_EveryFileAttemptedOnceLoaded ==
  /\ attempted = UpTo(Len(attempted))
  /\ main_pc # "start" /\ main_pc # "loop" =>
       /\ main_pc = "returned"
       /\ processor = "loaded" => attempted = UpTo(Len(pdf_files))
       /\ processor # "loaded" => attempted = <<>>
       /\ main_returned = "True" <=> written # {}
  /\ successful_processed = Cardinality(written)
  /\ successful_processed <= total_files

\* main returned True after a file that raised in extract_outline, one
\* that raised in the write and, last, one that was written
C18_WrittenAfterFailures ==
  /\ main_pc = "returned"
  /\ main_returned = "True"
  /\ pdf_files = << "extract_outline raises", "write raises", "extracts and writes" >>
  /\ attempted = << 1, 2, 3 >>
  /\ written = {3}
  /\ successful_processed = 1
====
